---- MODULE Spec2Model ----
(***************************************************************************)
(* A model of the KingEngine D3D11 render system: scene snapshots, frustum *)
(* culling and batching (BuildPreparedFrame), the asynchronous prepare     *)
(* worker with its pending/ready slots, start-up and teardown ordering,    *)
(* and command recording on deferred contexts with in-order replay.        *)
(*                                                                         *)
(* Floats are modelled by small integers (the arithmetic used here is      *)
(* exact on them), pointers by positive integers with 0 for nullptr, and   *)
(* strings by sequences of byte codes.  The 64-bit FNV-1a hash is folded   *)
(* exactly as in the source but kept to its low HashBits bits, since the   *)
(* model checker's integers are 32 bits wide.                              *)
(***************************************************************************)
EXTENDS Integers, Sequences, FiniteSets, TLC

VARIABLES
    \* one call of BuildPreparedFrame: its arguments and its result
    bItems, bFrustum, bFrame, bBuilt

buildVars == << bItems, bFrustum, bFrame, bBuilt >>

VARIABLES
    \* the main thread: where it is in main() / Initialize / Shutdown /
    \* RenderGeometryPass, and who called Shutdown and StopWorker
    mainPc, sdRet, stopRet, booted, frameNo, resets,
    \* RenderGeometryPass: its frustum argument and its local PreparedFrame
    passFrustum, passFrame,
    \* RenderSystemD3D11 members
    cfgPrepareThreads, mUsePrepareWorker, mWorkerExit, mPendingValid, mReadyValid,
    mPendingItems, mPendingFrustum, mReadyFrame, mSnapshotScratch,
    \* mWorkMutex (who holds it) and mWorkCv (a notification is pending)
    mutex, cvSignal,
    \* the worker thread: its position and its locals items, fr, frame
    workerPc, workerItems, workerFr, workerFrame,
    \* what exists: the render system's GPU resources, the scene meshes'
    \* vertex/index buffers, the device's own resources
    rsResources, meshBuffers, deviceAlive,
    \* history: the inputs of each EnqueueBuild call, the last rendered frame
    \* and the newest snapshot rendered before it, the resources released while the
    \* worker thread was running, and since StartWorker: the snapshots
    \* enqueued, the numbers of EnqueueBuild calls, of published frames and of
    \* ConsumeReadyFrame calls that returned true, and the last such call
    taken, lastRender, maxSnapBefore, releasedWhileRunning,
    enqueued, nEnq, nPub, nTrue, lastConsume

mainVars == << mainPc, sdRet, stopRet, booted, frameNo, resets, passFrustum, passFrame >>

memberVars == << cfgPrepareThreads, mUsePrepareWorker, mWorkerExit, mPendingValid,
                 mReadyValid, mPendingItems, mPendingFrustum, mReadyFrame,
                 mSnapshotScratch, mutex, cvSignal >>

workerVars == << workerPc, workerItems, workerFr, workerFrame >>

resourceVars == << rsResources, meshBuffers, deviceAlive >>

historyVars == << taken, lastRender, maxSnapBefore, releasedWhileRunning,
                  enqueued, nEnq, nPub, nTrue, lastConsume >>

pipeVars == << mainVars, memberVars, workerVars, resourceVars, historyVars >>

VARIABLES
    \* which recording pass is followed: "geometry", "shadow" or "none"
    pass,
    \* the draw section of RenderGeometryPass: position, the frame, the meshes
    \* that have a vertex buffer, doSsao, mDeferredContexts.size(), the loop
    \* index, recorded[], and what reached the immediate context on the
    \* deferred path (slots replayed, draws) and on the immediate path
    gPc, gFrame, gMeshVb, gDoSsao, gNumWorkers, gI, gRecorded,
    gReplayLog, gSubmitted, gImmediate,
    \* ShadowsD3D11::Render: position, cascades, mDeferredContexts.size(),
    \* mShadowRecordThreads, the atomic next, per thread its position and its
    \* cascade, recorded[], the loop index, what reached the immediate
    \* context, and the order in which the threads ended
    sPc, sCascades, sCtxCount, sRequestedThreads, sNext, sWorkerPc, sWorkerC,
    sRecorded, sC, sLog, sFinished

geoVars == << gPc, gFrame, gMeshVb, gDoSsao, gNumWorkers, gI, gRecorded,
              gReplayLog, gSubmitted, gImmediate >>

shadowVars == << sPc, sCascades, sCtxCount, sRequestedThreads, sNext, sWorkerPc,
                 sWorkerC, sRecorded, sC, sLog, sFinished >>

recVars == << pass, geoVars, shadowVars >>

VARIABLES
    \* what lives as long as the device: mInstanceCapacity, whether
    \* mInstanceVB is non-null, mMaterialCache and mProgramCache as sets of
    \* entries
    mInstanceCapacity, mInstanceVB, mMaterialCache, mProgramCache,
    \* history: the number of material entries created since the process
    \* started, since Initialize: the materials resolved, each with the
    \* entry its first resolution returned, the largest capacity seen, the
    \* last GetOrCreateMaterialGpu and EnsureInstanceBuffer calls, and the
    \* number of calls made
    gpuCreations, resolvedMats, capHigh, lastResolve, lastEnsure, cacheCalls

deviceVars == << mInstanceCapacity, mInstanceVB, mMaterialCache, mProgramCache >>

cacheHistoryVars == << gpuCreations, resolvedMats, capHigh, lastResolve, lastEnsure,
                       cacheCalls >>

cacheVars == << deviceVars, cacheHistoryVars >>

VARIABLES
    \* the optional features' GPU resources: which of the HDR and SSAO
    \* normal/depth targets exist and whether mHdrW/mHdrH were set, which
    \* of the cascaded shadow map's objects exist, and mPointShadowSize
    mHdrTargets, mShadowRes, mPointShadowSize,
    \* the RenderGeometryPass call that has not returned yet: its arguments
    \* and what it did; and the number of calls made
    lastPass, passCount

featVars == << mHdrTargets, mShadowRes, mPointShadowSize, lastPass, passCount >>

VARIABLES
    \* a frustum test of its own: the orthographic view volume, the planes
    \* FromViewProjection extracted from its matrix, the sphere tested and
    \* what Intersects returned ("none" before the call)
    fBox, fPlanes, fSphere, fResult

frustumVars == << fBox, fPlanes, fSphere, fResult >>

VARIABLES
    \* the shadow pass's caster batching: the snapshot it walks, the number of
    \* cascades, mShadowInstancesScratch, mShadowDrawBatchesPerCascade and
    \* whether the batching ran
    cSnapshot, cCascades, mShadowInstancesScratch, mShadowDrawBatchesPerCascade,
    cBatched

casterVars == << cSnapshot, cCascades, mShadowInstancesScratch,
                 mShadowDrawBatchesPerCascade, cBatched >>

VARIABLES
    \* the cascade splits of ComputeCascades: the camera's near and far
    \* plane, settings.cascadeLambda and settings.cascadeCount, and the
    \* outputs outCascadeSplitsNdc (<< >> before the call) and outCascadeCount
    kCamera, kLambda, kCascadeCount, outCascadeSplitsNdc, outCascadeCount

splitVars == << kCamera, kLambda, kCascadeCount, outCascadeSplitsNdc,
                outCascadeCount >>

VARIABLES
    \* the scene's mesh storage (SparseSet<Mesh>): the entity whose component
    \* each element of mData holds, the capacity of the vector and the
    \* identity of its allocation
    mData, mDataCapacity, mDataBuffer,
    \* the frames that carry mesh pointers: mUsePrepareWorker, the snapshot
    \* handed to the worker, the frame it published, the frame being
    \* recorded (NoMeshFrame outside a pass) and what the last recording read
    \* through each pointer
    scUseWorker, scPending, scReady, scFrame, scDrawn

meshVars == << mData, mDataCapacity, mDataBuffer, scUseWorker, scPending,
               scReady, scFrame, scDrawn >>

VARIABLES
    \* the instance uploads of a RenderGeometryPass: where the pass is
    \* ("idle" between passes) and its last copy into the instance buffer
    uPc, lastUpload

uploadVars == << uPc, lastUpload >>

\* what the frustum test leaves alone
frustumOthers == << casterVars, splitVars, meshVars, uploadVars >>

\* what the caster batching leaves alone
casterOthers == << frustumVars, splitVars, meshVars, uploadVars >>

\* what the cascade splits leave alone
splitOthers == << frustumVars, casterVars, meshVars, uploadVars >>

\* what the mesh storage and the frames over it leave alone
meshOthers == << frustumVars, casterVars, splitVars, uploadVars >>

\* what the instance uploads leave alone
uploadOthers == << frustumVars, casterVars, splitVars, meshVars >>

calcVars == << frustumVars, casterVars, splitVars, meshVars, uploadVars >>

\* what the pipeline's steps leave alone
otherVars == << buildVars, recVars, cacheVars, featVars, calcVars >>

vars == << buildVars, pipeVars, recVars, cacheVars, featVars, calcVars >>

(***************************************************************************)
(* Bounds of the model.                                                    *)
(***************************************************************************)
MaxItems == 3

MaxFrames == 3

MaxContexts == 3

MaxResets == 1

MaxShadowThreads == 3

MaxStopJobs == 2

MaxRequest == 5000

MaxCacheCalls == 4

MaxPasses == 2

MaxFailures == 2

HashBits == 16

----------------------------------------------------------------------------
(***************************************************************************)
(* Generic helpers.                                                        *)
(***************************************************************************)
Range(s) == { s[i] : i \in DOMAIN s }

SeqsUpTo(S, n) == UNION { [1..k -> S] : k \in 0..n }

Max(a, b) == IF a > b THEN a ELSE b

Min(a, b) == IF a < b THEN a ELSE b

RECURSIVE SumSeq(_)
SumSeq(s) == IF s = << >> THEN 0 ELSE Head(s) + SumSeq(Tail(s))

\* bit i of the exclusive or of a and b, in place
XorBit(a, b, i) == ((((a \div (2 ^ i)) % 2) + ((b \div (2 ^ i)) % 2)) % 2) * (2 ^ i)

\* h ^= byte: only the low eight bits of h change
XorByte(h, byte) ==
    (h - (h % 256))
    + XorBit(h, byte, 0) + XorBit(h, byte, 1) + XorBit(h, byte, 2) + XorBit(h, byte, 3)
    + XorBit(h, byte, 4) + XorBit(h, byte, 5) + XorBit(h, byte, 6) + XorBit(h, byte, 7)

----------------------------------------------------------------------------
(***************************************************************************)
(* Material key hashing (render_system_d3d11.cpp, lines 66-166).           *)
(***************************************************************************)
HashMod == 2 ^ HashBits

\* low bits of the FNV-1a 64-bit offset basis 1469598103934665603
FnvSeedLow == 899

\* low bits of the FNV-1a 64-bit prime 1099511628211
FnvPrimeLow == 435

\* little-endian bytes of a 32-bit value
BytesU32(v) ==
    << v % 256, (v \div 256) % 256, (v \div 65536) % 256, (v \div 16777216) % 256 >>

\* the loop of Fnv1a64 over the bytes, from seed h
Fnv1a64Loop[bytes \in Seq(Nat), h \in Nat] ==
    IF bytes = << >> THEN h
    ELSE Fnv1a64Loop[Tail(bytes), (XorByte(h, Head(bytes)) * FnvPrimeLow) % HashMod]

Fnv1a64(bytes, h) == Fnv1a64Loop[bytes, h]

HashU32(h, v) == Fnv1a64(BytesU32(v), h)

\* the float's bit pattern is hashed as a 32-bit value
HashF32(h, v) == HashU32(h, v)

HashString(h, s) ==
    LET h1 == HashU32(h, Len(s))
    IN  IF s # << >> THEN Fnv1a64(s, h1) ELSE h1

ToLowerChar(c) == IF c >= 65 /\ c <= 90 THEN c - 65 + 97 ELSE c

EndsWithI(s, suffix) ==
    LET n == Len(s)
        m == Len(suffix)
    IN  IF m > n THEN FALSE
        ELSE \A i \in 1..m : ToLowerChar(s[n - m + i]) = ToLowerChar(suffix[i])

\* ".hlsl" and ".hlsli"
SuffixHlsl == << 46, 104, 108, 115, 108 >>

SuffixHlsli == << 46, 104, 108, 115, 108, 105 >>

\* a run of HashF32 calls
HashFloats[h \in Nat, fs \in Seq(Nat)] ==
    IF fs = << >> THEN h ELSE HashFloats[HashF32(h, Head(fs)), Tail(fs)]

\* a run of HashString calls
HashStrings[h \in Nat, ss \in Seq(Seq(Nat))] ==
    IF ss = << >> THEN h ELSE HashStrings[HashString(h, Head(ss)), Tail(ss)]

\* scalars arrive sorted by name; each contributes its name and its value
HashScalars[h \in Nat, kvs \in Seq(Seq(Nat) \X Nat)] ==
    IF kvs = << >> THEN h
    ELSE HashScalars[HashF32(HashString(h, Head(kvs)[1]), Head(kvs)[2]), Tail(kvs)]

MakeMaterialKeyHash(m) ==
    LET h0 == FnvSeedLow
        h1 == IF EndsWithI(m.shader, SuffixHlsl) \/ EndsWithI(m.shader, SuffixHlsli)
              THEN HashString(h0, m.shader) ELSE h0
        h2 == HashU32(HashU32(h1, m.blendMode), m.shadingModel)
        h3 == HashFloats[h2, m.albedo \o << m.roughness, m.metallic >> \o m.emissive]
        h4 == HashStrings[h3, m.textures]
    IN  HashScalars[h4, m.scalars]

----------------------------------------------------------------------------
(***************************************************************************)
(* Inputs: materials, snapshot items and frusta the model draws from.      *)
(***************************************************************************)
\* "pbr", "pbx" and "x.HLSL"
ShaderPbr == << 112, 98, 114 >>

ShaderPbx == << 112, 98, 120 >>

ShaderCustom == << 120, 46, 72, 76, 83, 76 >>

MatA == [shader |-> ShaderPbr, blendMode |-> 0, shadingModel |-> 0,
         albedo |-> << 1, 1, 1, 1 >>, roughness |-> 5, metallic |-> 0,
         emissive |-> << 0, 0, 0 >>,
         textures |-> << << >>, << >>, << >>, << >> >>, scalars |-> << >>]

\* another albedo
MatB == [MatA EXCEPT !.albedo = << 2, 1, 1, 1 >>]

\* differs from MatA only in a shader name that is no .hlsl override
MatC == [MatA EXCEPT !.shader = ShaderPbx]

\* alpha blended, custom shader, one scalar
MatD == [MatA EXCEPT !.shader = ShaderCustom, !.blendMode = 1,
                     !.scalars = << << << 97 >>, 3 >> >>]

MaterialPool == { MatA, MatB, MatC, MatD }

\* MakeMaterialKeyHash of every material of the pool, computed once
MaterialKeyOf == [m \in MaterialPool |-> MakeMaterialKeyHash(m)]

Item(mesh, pos, scale, radius, mat, flags) ==
    [mesh |-> mesh, position |-> pos, scale |-> scale,
     boundsCenter |-> << 0, 0, 0 >>, boundsRadius |-> radius,
     material |-> mat, flags |-> flags]

ItemPool ==
    { Item(1, << 0, 0, 0 >>, << 1, 1, 1 >>, 1, MatA, 3),
      Item(1, << 1, 0, 0 >>, << 1, 1, 1 >>, 1, MatB, 3),
      Item(2, << 4, 0, 0 >>, << 1, 2, 1 >>, 1, MatA, 1),
      Item(0, << 0, 0, 0 >>, << 1, 1, 1 >>, 1, MatB, 3),
      Item(2, << 6, 0, 0 >>, << 1, 1, 1 >>, 1, MatC, 3),
      Item(1, << 0, 1, 0 >>, << 1, 1, 1 >>, 1, MatD, 0) }

\* snapshots: what BuildSnapshot can find in the scene
SceneA ==
    << Item(1, << 0, 0, 0 >>, << 1, 1, 1 >>, 1, MatA, 3),
       Item(1, << 1, 0, 0 >>, << 1, 1, 1 >>, 1, MatB, 3),
       Item(2, << 4, 0, 0 >>, << 1, 2, 1 >>, 1, MatA, 1) >>

SceneB ==
    << Item(2, << 6, 0, 0 >>, << 1, 1, 1 >>, 1, MatC, 3),
       Item(1, << 0, 1, 0 >>, << 1, 1, 1 >>, 1, MatA, 0),
       Item(1, << 0, 0, 0 >>, << 1, 1, 1 >>, 1, MatC, 3) >>

\* a scene of four batches, one of them alpha blended with its own shader
SceneC ==
    << Item(1, << 0, 0, 0 >>, << 1, 1, 1 >>, 1, MatA, 3),
       Item(1, << 1, 0, 0 >>, << 1, 1, 1 >>, 1, MatB, 3),
       Item(1, << 0, 1, 0 >>, << 1, 1, 1 >>, 1, MatD, 3),
       Item(2, << 4, 0, 0 >>, << 1, 2, 1 >>, 1, MatA, 1),
       Item(1, << 1, 1, 0 >>, << 1, 1, 1 >>, 1, MatB, 3) >>

\* the six planes of an axis-aligned box |x|,|y|,|z| <= h:
\* left, right, bottom, top, near, far
BoxFrustum(h) ==
    << [n |-> << 1, 0, 0 >>, d |-> h], [n |-> << -1, 0, 0 >>, d |-> h],
       [n |-> << 0, 1, 0 >>, d |-> h], [n |-> << 0, -1, 0 >>, d |-> h],
       [n |-> << 0, 0, 1 >>, d |-> h], [n |-> << 0, 0, -1 >>, d |-> h] >>

FrustumPool == { BoxFrustum(2), BoxFrustum(5) }

----------------------------------------------------------------------------
(***************************************************************************)
(* Frustum test (frustum.cpp).  A plane is [n |-> <<x,y,z>>, d |-> d].     *)
(***************************************************************************)
PlaneDistance(p, x) == p.n[1] * x[1] + p.n[2] * x[2] + p.n[3] * x[3] + p.d

\* a test that also rejects a sphere that only touches a plane
IntersectsRejectsTouching(planes, s) ==
    \A i \in DOMAIN planes : ~ (PlaneDistance(planes[i], s.center) <= - s.radius)

\* a test that looks at the four side planes only
IntersectsSidePlanesOnly(planes, s) ==
    \A i \in 1..4 : ~ (PlaneDistance(planes[i], s.center) < - s.radius)

\* Frustum::Intersects(const Sphere&)
Intersects(planes, s) ==
    \A i \in DOMAIN planes : ~ (PlaneDistance(planes[i], s.center) < - s.radius)

\* the integer square root
Isqrt(n) == CHOOSE r \in 0..n : r * r <= n /\ (r + 1) * (r + 1) > n

\* NormalizePlane: the plane (a, b, c, d) divided by the length of its
\* normal, the zero plane when that length is 0.  The matrices of the
\* model have axis-aligned planes whose length divides their entries, so
\* the square root and the divisions are exact.
NormalizePlane(a, b, c, d) ==
    LET len == Isqrt(a * a + b * b + c * c)
    IN  IF len > 0
        THEN [n |-> << a \div len, b \div len, c \div len >>, d |-> d \div len]
        ELSE [n |-> << 0, 0, 0 >>, d |-> 0]

\* element (row r, column c) of a row-major 4x4 matrix, r and c from 0
MatAt(m, r, c) == m[c + r * 4 + 1]

\* Frustum::FromViewProjection: left, right, bottom, top, near, far from
\* the columns of the matrix
FromViewProjection(m) ==
    LET c0(r) == MatAt(m, r, 0)
        c1(r) == MatAt(m, r, 1)
        c2(r) == MatAt(m, r, 2)
        c3(r) == MatAt(m, r, 3)
    IN  << NormalizePlane(c3(0) + c0(0), c3(1) + c0(1), c3(2) + c0(2), c3(3) + c0(3)),
           NormalizePlane(c3(0) - c0(0), c3(1) - c0(1), c3(2) - c0(2), c3(3) - c0(3)),
           NormalizePlane(c3(0) + c1(0), c3(1) + c1(1), c3(2) + c1(2), c3(3) + c1(3)),
           NormalizePlane(c3(0) - c1(0), c3(1) - c1(1), c3(2) - c1(2), c3(3) - c1(3)),
           NormalizePlane(c2(0), c2(1), c2(2), c2(3)),
           NormalizePlane(c3(0) - c2(0), c3(1) - c2(1), c3(2) - c2(2), c3(3) - c2(3)) >>

\* The view-projection matrix of an orthographic camera at the origin that
\* looks down +z (Camera, XMMatrixOrthographicLH): the view volume is
\* |x|, |y| <= h and zn <= z <= zf.  Every entry is multiplied by
\* h * (zf - zn), which the normalisation of the planes divides out again.
OrthoViewProjection(box) ==
    LET D == box.zf - box.zn
    IN  << D, 0, 0, 0,
           0, D, 0, 0,
           0, 0, box.h, 0,
           0, 0, (0 - box.zn) * box.h, box.h * D >>

MaxCoord == 4

MaxRadius == 2

\* view volumes: one centred on the origin, one that starts at z = 0
FrustumBoxes == { [h |-> 2, zn |-> -2, zf |-> 2], [h |-> 3, zn |-> 0, zf |-> 4] }

Coords == (0 - MaxCoord)..MaxCoord

NoPlanes == << >>

FrustumIdle ==
    /\ fBox = [h |-> 2, zn |-> -2, zf |-> 2]
    /\ fPlanes = NoPlanes
    /\ fSphere = [center |-> << 0, 0, 0 >>, radius |-> 0]
    /\ fResult = "none"

\* camera_system: the frustum of the camera's view-projection matrix
FrustumExtract ==
    /\ fPlanes = NoPlanes
    /\ fPlanes' = FromViewProjection(OrthoViewProjection(fBox))
    /\ UNCHANGED << fBox, fSphere, fResult >>
    /\ UNCHANGED << buildVars, pipeVars, recVars, cacheVars, featVars, frustumOthers >>

\* one sphere tested against the frustum
FrustumTest ==
    /\ fPlanes # NoPlanes
    /\ fResult = "none"
    /\ fResult' = IF Intersects(fPlanes, fSphere) THEN "true" ELSE "false"
    /\ UNCHANGED << fBox, fPlanes, fSphere >>
    /\ UNCHANGED << buildVars, pipeVars, recVars, cacheVars, featVars, frustumOthers >>

----------------------------------------------------------------------------
(***************************************************************************)
(* Shadow caster batching of the shadow pass (RenderGeometryPass).  A      *)
(* caster is a snapshot item together with the set of cascades its bounds  *)
(* intersect: the outcome of intersectsCascade, which depends on the       *)
(* cascade's matrix, is an input.                                          *)
(***************************************************************************)
kInstFlag_CastsShadows == 2

kMaxCascades == 3

HasFlag(flags, bit) == (flags \div bit) % 2 = 1

Caster(mesh, mat, flags, hits) ==
    [mesh |-> mesh, material |-> mat, flags |-> flags, hits |-> hits]

\* two casters of mesh 1 with different materials around one of mesh 2, a
\* caster that reaches one cascade only, an item that casts no shadow
CasterPool ==
    { Caster(1, MatA, 3, { 0, 1 }),
      Caster(2, MatA, 3, { 0, 1, 2 }),
      Caster(1, MatB, 3, { 0, 1 }),
      Caster(1, MatA, 2, { 1 }),
      Caster(2, MatB, 1, { 0, 1 }),
      Caster(2, MatC, 3, { 0, 2 }) }

MaxCasters == 3

intersectsCascade(s, c) == c \in s.hits

\* mShadowCasterPtrs[c] after the loop over the snapshot: the indices of the
\* items that cast shadows and intersect cascade c, in snapshot order
ShadowCasterPtrs(snapshot, c) ==
    LET F[i \in 0..Len(snapshot)] ==
            IF i = 0 THEN << >>
            ELSE IF HasFlag(snapshot[i].flags, kInstFlag_CastsShadows)
                    /\ intersectsCascade(snapshot[i], c)
                 THEN Append(F[i - 1], i)
                 ELSE F[i - 1]
    IN  F[Len(snapshot)]

\* a walk that leaves the casters in snapshot order
CasterSortOutcomesUnsorted(snapshot, ptrs) == { ptrs }

\* std::sort of the pointers by mesh address: every order std::sort may
\* leave, which is not stable
CasterSortOutcomes(snapshot, ptrs) ==
    LET n == Len(ptrs)
        perms == { p \in [1..n -> 1..n] : \A i, j \in 1..n : i # j => p[i] # p[j] }
    IN  { [i \in 1..n |-> ptrs[q[i]]] : q \in
            { p \in perms : \A i, j \in 1..n :
                  i < j => ~ (snapshot[ptrs[p[j]]].mesh < snapshot[ptrs[p[i]]].mesh) } }

\* the walk over one cascade's sorted casters: instances are appended to
\* the scratch array shared by all cascades, a batch is closed when the
\* mesh changes and once more after the loop
ShadowBatchWalk(snapshot, sorted, c, scratch) ==
    LET Start == [currentMesh |-> 0,
                  current |-> [mesh |-> 0, startInstance |-> Len(scratch),
                               instanceCount |-> 0],
                  instances |-> scratch, batches |-> << >>]
        Step(st, i) ==
            IF snapshot[i].mesh = 0 THEN st
            ELSE LET change == snapshot[i].mesh # st.currentMesh
                     batches1 == IF change /\ st.currentMesh # 0
                                           /\ st.current.instanceCount > 0
                                 THEN Append(st.batches, st.current)
                                 ELSE st.batches
                     cur == IF change
                            THEN [mesh |-> snapshot[i].mesh,
                                  startInstance |-> Len(st.instances),
                                  instanceCount |-> 0]
                            ELSE st.current
                 IN  [currentMesh |-> snapshot[i].mesh,
                      current |-> [cur EXCEPT !.instanceCount = @ + 1],
                      instances |-> Append(st.instances, [src |-> i, cascade |-> c]),
                      batches |-> batches1]
        W[k \in 0..Len(sorted)] ==
            IF k = 0 THEN Start ELSE Step(W[k - 1], sorted[k])
        end == W[Len(sorted)]
    IN  [instances |-> end.instances,
         batches |-> IF end.currentMesh # 0 /\ end.current.instanceCount > 0
                     THEN Append(end.batches, end.current) ELSE end.batches]

\* what the loops over the cascades can leave in mShadowInstancesScratch
\* and mShadowDrawBatchesPerCascade (cascade c at index c + 1)
RECURSIVE ShadowBatchOutcomes(_, _)
ShadowBatchOutcomes(snapshot, cascades) ==
    IF cascades = 0 THEN { [instances |-> << >>, perCascade |-> << >>] }
    ELSE { [instances |-> w.instances, perCascade |-> Append(o.perCascade, w.batches)] :
             << o, w >> \in
               UNION { { << o1, ShadowBatchWalk(snapshot, sorted, cascades - 1, o1.instances) >> :
                           sorted \in CasterSortOutcomes(snapshot,
                                        ShadowCasterPtrs(snapshot, cascades - 1)) } :
                       o1 \in ShadowBatchOutcomes(snapshot, cascades - 1) } }

CasterIdle ==
    /\ cSnapshot = << >>
    /\ cCascades = 1
    /\ mShadowInstancesScratch = << >>
    /\ mShadowDrawBatchesPerCascade = << >>
    /\ cBatched = FALSE

\* the caster batching of one shadow pass
ShadowBatchCasters ==
    /\ ~ cBatched
    /\ \E o \in ShadowBatchOutcomes(cSnapshot, cCascades) :
          /\ mShadowInstancesScratch' = o.instances
          /\ mShadowDrawBatchesPerCascade' = o.perCascade
    /\ cBatched' = TRUE
    /\ UNCHANGED << cSnapshot, cCascades >>
    /\ UNCHANGED << buildVars, pipeVars, recVars, cacheVars, featVars, casterOthers >>

----------------------------------------------------------------------------
(***************************************************************************)
(* Cascade split depths (ShadowsD3D11::ComputeCascades).  Depths are       *)
(* rational numbers [n, d] in lowest terms with d > 0 and the arithmetic   *)
(* is exact: the rounding of float is not part of the model.  std::pow is  *)
(* the exact power, which the cameras of the model make rational.          *)
(***************************************************************************)
RECURSIVE GCD(_, _)
GCD(a, b) == IF b = 0 THEN a ELSE GCD(b, a % b)

Rat(n, d) ==
    LET sn == IF d < 0 THEN 0 - n ELSE n
        sd == IF d < 0 THEN 0 - d ELSE d
        g == GCD(IF sn < 0 THEN 0 - sn ELSE sn, sd)
    IN  [n |-> sn \div g, d |-> sd \div g]

\* sums and comparisons over the least common denominator
RatAdd(x, y) ==
    LET g == GCD(x.d, y.d)
    IN  Rat(x.n * (y.d \div g) + y.n * (x.d \div g), (x.d \div g) * y.d)

RatSub(x, y) == RatAdd(x, [n |-> 0 - y.n, d |-> y.d])

RatMul(x, y) == Rat(x.n * y.n, x.d * y.d)

RatDiv(x, y) == Rat(x.n * y.d, x.d * y.n)

RatLess(x, y) ==
    LET g == GCD(x.d, y.d)
    IN  x.n * (y.d \div g) < y.n * (x.d \div g)

RatOne == Rat(1, 1)

\* the k-th root of an integer that is a k-th power
IntRoot(n, k) ==
    LET P[j \in 0..k, r \in 0..n] == IF j = 0 THEN 1 ELSE r * P[j - 1, r]
    IN  CHOOSE r \in 0..n : P[k, r] = n

RECURSIVE RatPowInt(_, _)
RatPowInt(x, k) == IF k = 0 THEN RatOne ELSE RatMul(x, RatPowInt(x, k - 1))

\* std::pow(x, num / den) for x whose den-th root is rational
RatPow(x, num, den) ==
    RatPowInt(Rat(IntRoot(x.n, den), IntRoot(x.d, den)), num)

\* a split fraction that starts at 0
SplitFractionFromZero(i, cascadeCount) == Rat(i, cascadeCount)

\* fi = (i + 1) / cascadeCount
SplitFraction(i, cascadeCount) == Rat(i + 1, cascadeCount)

\* nearZ and farZ as ComputeCascades repairs the camera's planes
EffectiveNearZ(cameraNearZ) ==
    IF RatLess(Rat(1, 10000), cameraNearZ) THEN cameraNearZ ELSE Rat(1, 10)

EffectiveFarZ(cameraFarZ, nearZ) ==
    IF RatLess(RatAdd(nearZ, Rat(1, 1000)), cameraFarZ)
    THEN cameraFarZ ELSE RatAdd(nearZ, Rat(100, 1))

\* view-space z to D3D NDC z: a + b / max(z, nearZ + 1e-4)
ndcFromViewZ(z, nearZ, farZ) ==
    LET a == RatDiv(farZ, RatSub(farZ, nearZ))
        b == RatDiv(RatMul(RatSub(Rat(0, 1), nearZ), farZ), RatSub(farZ, nearZ))
        lo == RatAdd(nearZ, Rat(1, 10000))
        zz == IF RatLess(lo, z) THEN z ELSE lo
    IN  RatAdd(a, RatDiv(b, zz))

RatClamp01(x) ==
    IF RatLess(x, Rat(0, 1)) THEN Rat(0, 1)
    ELSE IF RatLess(RatOne, x) THEN RatOne ELSE x

\* splitViewZ[i]
SplitViewZ(i, cascadeCount, lambda, nearZ, farZ) ==
    LET fi == SplitFraction(i, cascadeCount)
        logSplit == RatMul(nearZ, RatPow(RatDiv(farZ, nearZ), fi.n, fi.d))
        linSplit == RatAdd(nearZ, RatMul(RatSub(farZ, nearZ), fi))
    IN  RatAdd(RatMul(lambda, logSplit), RatMul(RatSub(RatOne, lambda), linSplit))

ClampCascadeCount(cascadeCount) ==
    IF cascadeCount < 1 THEN 1
    ELSE IF cascadeCount > kMaxCascades THEN kMaxCascades ELSE cascadeCount

\* outCascadeSplitsNdc[0..2] (index 1..3 here) and outCascadeCount
CascadeSplits(cameraNearZ, cameraFarZ, settingsCascadeCount, cascadeLambda) ==
    LET nearZ == EffectiveNearZ(cameraNearZ)
        farZ == EffectiveFarZ(cameraFarZ, nearZ)
        cascadeCount == ClampCascadeCount(settingsCascadeCount)
        lambda == RatClamp01(cascadeLambda)
        z(i) == SplitViewZ(i, cascadeCount, lambda, nearZ, farZ)
    IN  [count |-> cascadeCount,
         splits |-> << ndcFromViewZ(z(0), nearZ, farZ),
                       IF cascadeCount > 1 THEN ndcFromViewZ(z(1), nearZ, farZ)
                       ELSE RatOne,
                       RatOne >>]

LambdaSteps == 4

\* settings.cascadeLambda: the multiples of 1 / LambdaSteps from one step
\* below 0 to one step above 1
Lambdas == { Rat(k, LambdaSteps) : k \in (0 - 1)..(LambdaSteps + 1) }

\* cameras whose far / near ratio is a sixth power: both planes given, a
\* near plane of 0 (repaired to 0.1), a far plane of 0 (repaired to
\* near + 100), and a ratio of 729
SplitCameras ==
    { [near |-> Rat(1, 1), far |-> Rat(64, 1)],
      [near |-> Rat(0, 1), far |-> Rat(32, 5)],
      [near |-> Rat(100, 63), far |-> Rat(0, 1)],
      [near |-> Rat(1, 1), far |-> Rat(729, 1)] }

NoSplits == << >>

SplitIdle ==
    /\ kCamera = [near |-> Rat(1, 1), far |-> Rat(64, 1)]
    /\ kLambda = Rat(0, 1)
    /\ kCascadeCount = 1
    /\ outCascadeSplitsNdc = NoSplits
    /\ outCascadeCount = 0

\* the split computation of one ComputeCascades call that went past its
\* guard
ComputeCascadeSplits ==
    /\ outCascadeSplitsNdc = NoSplits
    /\ \E r \in { CascadeSplits(kCamera.near, kCamera.far, kCascadeCount, kLambda) } :
          /\ outCascadeSplitsNdc' = r.splits
          /\ outCascadeCount' = r.count
    /\ UNCHANGED << kCamera, kLambda, kCascadeCount >>
    /\ UNCHANGED << buildVars, pipeVars, recVars, cacheVars, featVars, splitOthers >>

----------------------------------------------------------------------------
(***************************************************************************)
(* Mesh pointers (SparseSet<Mesh>, BuildSnapshot, the recording loop).     *)
(* A Mesh* is [buf, idx, mesh]: the allocation of mData it points into,    *)
(* the element, and the entity whose component was there when TryGet       *)
(* returned it.  Every stored mesh is referenced by a renderer.            *)
(***************************************************************************)
MaxMeshEntities == 3

MaxReallocations == 2

MeshEntities == 1..MaxMeshEntities

NoMeshFrame == [valid |-> FALSE, ptrs |-> {}]

MeshFrame(ptrs) == [valid |-> TRUE, ptrs |-> ptrs]

IndexOfMesh(data, e) == CHOOSE i \in DOMAIN data : data[i] = e

\* SparseSet::Remove: the last element is moved into the hole, then
\* pop_back
SparseSetRemove(data, e) ==
    IF ~ \E i \in DOMAIN data : data[i] = e THEN data
    ELSE LET idx == IndexOfMesh(data, e)
             last == Len(data)
             moved == IF idx # last THEN [data EXCEPT ![idx] = data[last]] ELSE data
         IN  SubSeq(moved, 1, last - 1)

\* the capacities emplace_back may choose when the vector is full
GrownCapacities(size) == { size + 1, 2 * size } \ { 0 }

\* BuildSnapshot: &mData[i] of every mesh a renderer refers to
BuildSnapshotPointers(data, buf) ==
    { [buf |-> buf, idx |-> i, mesh |-> data[i]] : i \in DOMAIN data }

\* the pointer still refers to the component it was taken from
PointerLive(ptr) ==
    /\ ptr.buf = mDataBuffer
    /\ ptr.idx \in DOMAIN mData
    /\ mData[ptr.idx] = ptr.mesh

\* what a read of b.mesh->vb can give: the mesh's buffer through a live
\* pointer, anything through a dangling one
DerefOutcomes(ptr) ==
    IF PointerLive(ptr) THEN { "mesh" }
    ELSE { "other mesh", "null", "garbage", "fault" }

MeshIdle ==
    /\ mData = << >>
    /\ mDataCapacity = 0
    /\ mDataBuffer = 0
    /\ scUseWorker = FALSE
    /\ scPending = NoMeshFrame
    /\ scReady = NoMeshFrame
    /\ scFrame = NoMeshFrame
    /\ scDrawn = << >>

\* SparseSet::Emplace between two frames: Remove(e), then emplace_back,
\* which moves the elements to a new allocation when the vector is full
MeshEmplace ==
    /\ ~ scFrame.valid
    /\ \E e \in MeshEntities :
          LET removed == SparseSetRemove(mData, e)
          IN  /\ mData' = Append(removed, e)
              /\ IF Len(removed) < mDataCapacity
                 THEN UNCHANGED << mDataCapacity, mDataBuffer >>
                 ELSE /\ mDataBuffer < MaxReallocations
                      /\ mDataBuffer' = mDataBuffer + 1
                      /\ mDataCapacity' \in GrownCapacities(Len(removed))
    /\ UNCHANGED << scUseWorker, scPending, scReady, scFrame, scDrawn >>
    /\ UNCHANGED << buildVars, pipeVars, recVars, cacheVars, featVars, meshOthers >>

\* Registry::DestroyEntity of a mesh entity between two frames
MeshDestroyEntity ==
    /\ ~ scFrame.valid
    /\ \E e \in MeshEntities :
          /\ \E i \in DOMAIN mData : mData[i] = e
          /\ mData' = SparseSetRemove(mData, e)
    /\ UNCHANGED << mDataCapacity, mDataBuffer >>
    /\ UNCHANGED << scUseWorker, scPending, scReady, scFrame, scDrawn >>
    /\ UNCHANGED << buildVars, pipeVars, recVars, cacheVars, featVars, meshOthers >>

\* the prepare worker: takes the pending snapshot and publishes the frame
\* built from it, pointers copied
MeshWorkerBuild ==
    /\ scPending.valid
    /\ scReady' = scPending
    /\ scPending' = NoMeshFrame
    /\ UNCHANGED << mData, mDataCapacity, mDataBuffer, scUseWorker, scFrame, scDrawn >>
    /\ UNCHANGED << buildVars, pipeVars, recVars, cacheVars, featVars, meshOthers >>

\* RenderGeometryPass up to the recording: BuildSnapshot, then the frame
\* is the ready frame if there is one and is built from the snapshot
\* otherwise, then EnqueueBuild hands the snapshot to the worker
MeshFramePrepare ==
    /\ ~ scFrame.valid
    /\ LET snapshot == MeshFrame(BuildSnapshotPointers(mData, mDataBuffer))
       IN  /\ scFrame' = IF scReady.valid THEN scReady ELSE snapshot
           /\ scReady' = NoMeshFrame
           /\ scPending' = IF scUseWorker THEN snapshot ELSE scPending
    /\ scDrawn' = << >>
    /\ UNCHANGED << mData, mDataCapacity, mDataBuffer, scUseWorker >>
    /\ UNCHANGED << buildVars, pipeVars, recVars, cacheVars, featVars, meshOthers >>

\* the recording loop: b.mesh->vb of every batch of the frame
MeshFrameRecord ==
    /\ scFrame.valid
    /\ scDrawn' \in { d \in [scFrame.ptrs -> { "mesh", "other mesh", "null", "garbage", "fault" }] :
                       \A ptr \in scFrame.ptrs : d[ptr] \in DerefOutcomes(ptr) }
    /\ scFrame' = NoMeshFrame
    /\ UNCHANGED << mData, mDataCapacity, mDataBuffer, scUseWorker, scPending, scReady >>
    /\ UNCHANGED << buildVars, pipeVars, recVars, cacheVars, featVars, meshOthers >>

NoUpload == [site |-> "none", n |-> 0, capacity |-> 0, buffer |-> FALSE]

UploadIdle == uPc = "idle" /\ lastUpload = NoUpload

CalcIdle == FrustumIdle /\ CasterIdle /\ SplitIdle /\ MeshIdle /\ UploadIdle

----------------------------------------------------------------------------
(***************************************************************************)
(* BuildPreparedFrame (render_system_d3d11.cpp, lines 1063-1176).          *)
(*                                                                         *)
(* A SnapshotItem is [mesh, position, scale, boundsCenter, boundsRadius,   *)
(* material, flags].  materialIndex and startInstance are 0-based as in    *)
(* the source.  An instance keeps, beside the data copied from the item,   *)
(* the index src of the snapshot item it was made from (history only).     *)
(***************************************************************************)
EmptyFrame == [instances |-> << >>, batches |-> << >>,
               materials |-> << >>, materialKeys |-> << >>]

MaxScale(sc) ==
    LET sx == sc[1]
        sy == sc[2]
        sz == sc[3]
    IN  IF sx > sy THEN (IF sx > sz THEN sx ELSE sz)
        ELSE (IF sy > sz THEN sy ELSE sz)

WorldSphere(s) ==
    [center |-> << s.position[1] + s.boundsCenter[1],
                   s.position[2] + s.boundsCenter[2],
                   s.position[3] + s.boundsCenter[3] >>,
     radius |-> s.boundsRadius * MaxScale(s.scale)]

MakeInstance(s, i) ==
    [world |-> << s.position, s.scale >>, albedo |-> s.material.albedo,
     flags |-> s.flags, src |-> i]

\* ResolveMaterialSlot with the new index taken after the push_back
ResolveMaterialSlotIndexAfterPush(acc, mat) ==
    LET k == MaterialKeyOf[mat]
    IN  IF k \notin DOMAIN acc.keyToIndex
        THEN LET newIndex == Len(acc.materials) + 1
             IN  [materials |-> Append(acc.materials, mat),
                  materialKeys |-> Append(acc.materialKeys, k),
                  keyToIndex |-> [x \in DOMAIN acc.keyToIndex \cup {k} |->
                                    IF x = k THEN newIndex ELSE acc.keyToIndex[x]],
                  index |-> newIndex]
        ELSE [materials |-> acc.materials, materialKeys |-> acc.materialKeys,
              keyToIndex |-> acc.keyToIndex, index |-> acc.keyToIndex[k]]

\* the find / push_back / emplace on materialKeyToIndex, for one item
ResolveMaterialSlot(acc, mat) ==
    LET k == MaterialKeyOf[mat]
    IN  IF k \notin DOMAIN acc.keyToIndex
        THEN LET newIndex == Len(acc.materials)
             IN  [materials |-> Append(acc.materials, mat),
                  materialKeys |-> Append(acc.materialKeys, k),
                  keyToIndex |-> [x \in DOMAIN acc.keyToIndex \cup {k} |->
                                    IF x = k THEN newIndex ELSE acc.keyToIndex[x]],
                  index |-> newIndex]
        ELSE [materials |-> acc.materials, materialKeys |-> acc.materialKeys,
              keyToIndex |-> acc.keyToIndex, index |-> acc.keyToIndex[k]]

\* the element of a one-element set; { F(x) : x \in { e } } evaluates e once
Only(S) == CHOOSE x \in S : TRUE

\* one iteration of the loop over the snapshot: null-mesh skip, sphere
\* culling, material slot
CollectStep(acc, s, i, frustum) ==
    IF s.mesh = 0 THEN acc
    ELSE IF ~ Intersects(frustum, WorldSphere(s)) THEN acc
    ELSE LET r == ResolveMaterialSlot(acc, s.material)
             it == [mesh |-> s.mesh, inst |-> MakeInstance(s, i),
                    materialIndex |-> r.index]
         IN  [visible |-> Append(acc.visible, it),
              materials |-> r.materials,
              materialKeys |-> r.materialKeys,
              keyToIndex |-> r.keyToIndex]

RECURSIVE CollectVisible(_, _, _, _)
CollectVisible(items, frustum, i, acc) ==
    IF i > Len(items) THEN acc
    ELSE Only({ CollectVisible(items, frustum, i + 1, acc1) :
                  acc1 \in { CollectStep(acc, items[i], i, frustum) } })

VisibleOf(items, frustum) ==
    CollectVisible(items, frustum, 1,
        [visible |-> << >>, materials |-> << >>, materialKeys |-> << >>,
         keyToIndex |-> << >>])

\* a comparator that looks at the mesh alone
ItemLessMeshOnly(a, b) == a.mesh < b.mesh

\* the comparator handed to std::sort
ItemLess(a, b) ==
    IF a.mesh # b.mesh THEN a.mesh < b.mesh ELSE a.materialIndex < b.materialIndex

\* std::sort is not stable: every ordering of the elements that the
\* comparator accepts as sorted is a possible result
SortOutcomes(visible) ==
    LET n == Len(visible)
        perms == { p \in [1..n -> 1..n] : \A i, j \in 1..n : i # j => p[i] # p[j] }
    IN  { [i \in 1..n |-> visible[p[i]]] : p \in
            { q \in perms : \A i, j \in 1..n :
                  i < j => ~ ItemLess(visible[q[j]], visible[q[i]]) } }

BatchInit ==
    [currentMesh |-> 0, currentMat |-> 0,
     currentBatch |-> [mesh |-> 0, materialIndex |-> 0, startInstance |-> 0,
                       instanceCount |-> 0],
     instances |-> << >>, batches |-> << >>]

\* BatchStep with the material comparison forgotten (a batch per mesh)
BatchStepMeshOnly(st, v) ==
    LET change == v.mesh # st.currentMesh
        batches1 == IF change /\ st.currentBatch.mesh # 0
                    THEN Append(st.batches, st.currentBatch) ELSE st.batches
        cb == IF change
              THEN [mesh |-> v.mesh, materialIndex |-> v.materialIndex,
                    startInstance |-> Len(st.instances), instanceCount |-> 0]
              ELSE st.currentBatch
    IN  [currentMesh |-> IF change THEN v.mesh ELSE st.currentMesh,
         currentMat |-> IF change THEN v.materialIndex ELSE st.currentMat,
         currentBatch |-> [cb EXCEPT !.instanceCount = @ + 1],
         instances |-> Append(st.instances, v.inst),
         batches |-> batches1]

\* one iteration of the batching walk
BatchStep(st, v) ==
    LET change == v.mesh # st.currentMesh \/ v.materialIndex # st.currentMat
        batches1 == IF change /\ st.currentBatch.mesh # 0
                    THEN Append(st.batches, st.currentBatch) ELSE st.batches
        cb == IF change
              THEN [mesh |-> v.mesh, materialIndex |-> v.materialIndex,
                    startInstance |-> Len(st.instances), instanceCount |-> 0]
              ELSE st.currentBatch
    IN  [currentMesh |-> IF change THEN v.mesh ELSE st.currentMesh,
         currentMat |-> IF change THEN v.materialIndex ELSE st.currentMat,
         currentBatch |-> [cb EXCEPT !.instanceCount = @ + 1],
         instances |-> Append(st.instances, v.inst),
         batches |-> batches1]

RECURSIVE BatchWalk(_, _)
BatchWalk(sorted, st) ==
    IF sorted = << >> THEN st
    ELSE Only({ BatchWalk(Tail(sorted), st1) : st1 \in { BatchStep(st, Head(sorted)) } })

\* EmitBatches with the trailing push forgotten
EmitBatchesNoTrailingPush(sorted) ==
    LET st == BatchWalk(sorted, BatchInit)
    IN  [instances |-> st.instances, batches |-> st.batches]

\* the trailing push of the batch still open after the walk
EmitBatches(sorted) ==
    LET st == BatchWalk(sorted, BatchInit)
    IN  [instances |-> st.instances,
         batches |-> IF st.currentBatch.mesh # 0
                     THEN Append(st.batches, st.currentBatch) ELSE st.batches]

\* the end of BuildPreparedFrame: acc is what the loop over the snapshot
\* collected, sorted is the result std::sort left in the visible list
FinishPreparedFrame(acc, sorted) ==
    IF acc.visible = << >>
    THEN [EmptyFrame EXCEPT !.materials = acc.materials,
                            !.materialKeys = acc.materialKeys]
    ELSE LET e == EmitBatches(sorted)
         IN  [instances |-> e.instances, batches |-> e.batches,
              materials |-> acc.materials, materialKeys |-> acc.materialKeys]

\* BuildPreparedFrame: every frame one call can produce
BuildOutcomes(items, frustum) ==
    UNION { { FinishPreparedFrame(acc, sorted) : sorted \in SortOutcomes(acc.visible) } :
              acc \in { VisibleOf(items, frustum) } }

----------------------------------------------------------------------------
(***************************************************************************)
(* Draw recording in RenderGeometryPass (lines 2627-2989).  A draw is what *)
(* the context has bound when DrawIndexedInstanced / DrawInstanced is      *)
(* issued: [mesh, material, prog, alpha, start, count].                    *)
(***************************************************************************)
\* curMat = 0xFFFFFFFFu: no material bound.  The largest integer of the
\* model checker stands for it; no frame has that many materials.
NoMaterial == 2147483647

\* what GetOrCreateMaterialGpu keeps for a material: the program (by shading
\* model, or the material's own .hlsl), whether that program has an MRT
\* variant, the blend intent
MaterialGpu(mat) ==
    [null |-> FALSE,
     program |-> IF EndsWithI(mat.shader, SuffixHlsl) THEN 9 ELSE 1 + mat.shadingModel,
     hasMrt |-> ~ EndsWithI(mat.shader, SuffixHlsl),
     alphaBlend |-> (mat.blendMode = 1)]

NullMaterialGpu == [null |-> TRUE, program |-> 0, hasMrt |-> FALSE, alphaBlend |-> FALSE]

\* frameMaterials[i] = GetOrCreateMaterialGpu(frame.materialKeys[i], frame.materials[i])
FrameMaterials(f) == [i \in DOMAIN f.materials |-> MaterialGpu(f.materials[i])]

\* the bindings tracked while a context records: curProg, curMat,
\* curAlphaBlend as set before the loop, and no draw yet
RecordInit == [curProg |-> 0, curMat |-> NoMaterial, curAlphaBlend |-> FALSE,
               draws |-> << >>]

\* the body of the loop over batches, the same text on both paths
RecordBatch(st, b, f, meshVb, doSsao) ==
    IF b.mesh = 0 \/ b.mesh \notin meshVb THEN st
    ELSE LET fm == FrameMaterials(f)
             mi == b.materialIndex
             mg == IF mi < Len(fm) THEN fm[mi + 1] ELSE NullMaterialGpu
             prog0 == IF mg.null THEN 0 ELSE mg.program
             desiredProg == IF doSsao /\ prog0 # 0 /\ ~ mg.hasMrt THEN 0 ELSE prog0
             progChanged == desiredProg # st.curProg
             curMat1 == IF progChanged THEN NoMaterial ELSE st.curMat
             bind == ~ mg.null /\ mi # curMat1
             curMat2 == IF bind THEN mi ELSE curMat1
             alpha2 == IF bind THEN mg.alphaBlend ELSE st.curAlphaBlend
         IN  [curProg |-> desiredProg, curMat |-> curMat2, curAlphaBlend |-> alpha2,
              draws |-> Append(st.draws,
                          [mesh |-> b.mesh, material |-> curMat2, prog |-> desiredProg,
                           alpha |-> alpha2, start |-> b.startInstance,
                           count |-> b.instanceCount])]

\* the loop over batches begin+1 .. end (0-based [begin, end))
RECURSIVE RecordRange(_, _, _, _, _, _)
RecordRange(st, f, begin, end, meshVb, doSsao) ==
    IF begin >= end THEN st
    ELSE Only({ RecordRange(st1, f, begin + 1, end, meshVb, doSsao) :
                  st1 \in { RecordBatch(st, f.batches[begin + 1], f, meshVb, doSsao) } })

\* the chunk size rounded down
ChunkSizeRoundedDown(totalBatches, numWorkers) == totalBatches \div numWorkers

\* const size_t chunk = (totalBatches + numWorkers - 1) / numWorkers;
ChunkSize(totalBatches, numWorkers) == (totalBatches + numWorkers - 1) \div numWorkers

ChunkBegin(i, totalBatches, numWorkers) == i * ChunkSize(totalBatches, numWorkers)

ChunkEnd(i, totalBatches, numWorkers) ==
    LET begin == ChunkBegin(i, totalBatches, numWorkers)
        chunk == ChunkSize(totalBatches, numWorkers)
    IN  IF begin + chunk < totalBatches THEN begin + chunk ELSE totalBatches

NoList == [present |-> FALSE, draws |-> << >>]

\* the frames handed to the draw section
RecordFrames ==
    BuildOutcomes(SceneA, BoxFrustum(5)) \cup BuildOutcomes(SceneC, BoxFrustum(5))
        \cup BuildOutcomes(SceneB, BoxFrustum(5))

GeoIdle ==
    /\ gPc = "idle" /\ gFrame = EmptyFrame /\ gMeshVb = { } /\ gDoSsao = FALSE
    /\ gNumWorkers = 0 /\ gI = 0 /\ gRecorded = << >>
    /\ gReplayLog = << >> /\ gSubmitted = << >> /\ gImmediate = << >>

\* one iteration of the loop over the deferred contexts (lines 2715-2882):
\* an empty chunk is skipped, the chunk is recorded on context i, and the
\* list is kept if FinishCommandList succeeds
GeoRecordChunk ==
    /\ pass = "geometry"
    /\ gPc = "record"
    /\ gI < gNumWorkers
    /\ LET total == Len(gFrame.batches)
           begin == ChunkBegin(gI, total, gNumWorkers)
           end == ChunkEnd(gI, total, gNumWorkers)
       IN  IF begin >= end
           THEN gRecorded' = Append(gRecorded, NoList)
           ELSE \E ok \in BOOLEAN :
                   gRecorded' = Append(gRecorded,
                       IF ok
                       THEN [present |-> TRUE,
                             draws |-> RecordRange(RecordInit, gFrame, begin, end,
                                                   gMeshVb, gDoSsao).draws]
                       ELSE NoList)
    /\ gI' = IF gI + 1 = gNumWorkers THEN 0 ELSE gI + 1
    /\ gPc' = IF gI + 1 = gNumWorkers THEN "replay" ELSE "record"
    /\ UNCHANGED << buildVars, calcVars, featVars, pipeVars, cacheVars, pass, shadowVars,
                    gFrame, gMeshVb, gDoSsao, gNumWorkers,
                    gReplayLog, gSubmitted, gImmediate >>

\* one iteration of the loop over recorded (lines 2884-2892)
GeoReplaySlot ==
    /\ pass = "geometry"
    /\ gPc = "replay"
    /\ gI < Len(gRecorded)
    /\ LET r == gRecorded[gI + 1]
       IN  IF r.present
           THEN /\ gSubmitted' = gSubmitted \o r.draws
                /\ gReplayLog' = Append(gReplayLog, gI)
           ELSE UNCHANGED << gSubmitted, gReplayLog >>
    /\ gI' = gI + 1
    /\ gPc' = IF gI + 1 = Len(gRecorded) THEN "immediate" ELSE "replay"
    /\ UNCHANGED << buildVars, calcVars, featVars, pipeVars, cacheVars, pass, shadowVars,
                    gFrame, gMeshVb, gDoSsao, gNumWorkers, gRecorded, gImmediate >>

\* the immediate path (lines 2898-2989) on the same frame and settings,
\* with no deferred context available
GeoImmediate ==
    /\ pass = "geometry"
    /\ gPc = "immediate"
    /\ gImmediate' = RecordRange(RecordInit, gFrame, 0, Len(gFrame.batches),
                                  gMeshVb, gDoSsao).draws
    /\ gPc' = "done"
    /\ UNCHANGED << buildVars, calcVars, featVars, pipeVars, cacheVars, pass, shadowVars,
                    gFrame, gMeshVb, gDoSsao, gNumWorkers, gI, gRecorded,
                    gReplayLog, gSubmitted >>

(***************************************************************************)
(* ShadowsD3D11::Render (shadows.cpp, lines 497-674): one command list per *)
(* cascade, recorded[c], recorded by the main thread or by worker threads  *)
(* that take cascades from the atomic counter next, then executed by the   *)
(* main thread.  Threads and cascades are numbered from 0.                 *)
(***************************************************************************)

\* ShadowsD3D11::Initialize: the number of deferred contexts asked for
DesiredShadowContexts(threads) ==
    IF threads > 1 THEN Min(kMaxCascades, threads) ELSE 1

\* a worker count that is not limited by the number of contexts
ShadowWorkerCountUncapped(requestedThreads, cascades, ctxCount) ==
    Min(requestedThreads, cascades)

\* workerCount = min(min(requestedThreads, cascades), ctxCount > 0 ? ctxCount : 1)
ShadowWorkerCount(requestedThreads, cascades, ctxCount) ==
    Min(Min(requestedThreads, cascades), IF ctxCount > 0 THEN ctxCount ELSE 1)

NoCascadeList == [present |-> FALSE, by |-> 0]

ShadowIdle ==
    /\ sPc = "idle" /\ sCascades = 1 /\ sCtxCount = 0 /\ sRequestedThreads = 0
    /\ sNext = 0 /\ sWorkerPc = << >> /\ sWorkerC = << >>
    /\ sRecorded = << >> /\ sC = 0 /\ sLog = << >> /\ sFinished = << >>

RecIdle == pass = "none" /\ GeoIdle /\ ShadowIdle

\* if (requestedThreads <= 1) ... else ...
ShadowBegin ==
    /\ pass = "shadow"
    /\ sPc = "start"
    /\ sPc' = IF sRequestedThreads <= 1 THEN "sequential" ELSE "spawn"
    /\ UNCHANGED << buildVars, calcVars, featVars, pipeVars, cacheVars, pass, geoVars,
                    sCascades, sCtxCount, sRequestedThreads, sNext, sWorkerPc,
                    sWorkerC, sRecorded, sC, sLog, sFinished >>

\* RecordCascade(dc, c) for a context that exists: the list is kept if
\* FinishCommandList succeeds
RecordCascade(recorded, c, by, ok) ==
    IF ok THEN [recorded EXCEPT ![c + 1] = [present |-> TRUE, by |-> by]]
    ELSE recorded

\* one iteration of the sequential loop (lines 591-636): the cascade is
\* recorded on context c % ctxCount, or drawn on the immediate context when
\* there is no deferred context
ShadowSequentialStep ==
    /\ pass = "shadow"
    /\ sPc = "sequential"
    /\ sC < sCascades
    /\ IF sCtxCount = 0
       THEN /\ sLog' = Append(sLog, [slot |-> sC, by |-> 0, kind |-> "immediate"])
            /\ UNCHANGED sRecorded
       ELSE /\ \E ok \in BOOLEAN : sRecorded' = RecordCascade(sRecorded, sC, 0, ok)
            /\ UNCHANGED sLog
    /\ sC' = IF sC + 1 = sCascades THEN 0 ELSE sC + 1
    /\ sPc' = IF sC + 1 = sCascades THEN "replay" ELSE "sequential"
    /\ UNCHANGED << buildVars, calcVars, featVars, pipeVars, cacheVars, pass, geoVars,
                    sCascades, sCtxCount, sRequestedThreads, sNext, sWorkerPc,
                    sWorkerC, sFinished >>

\* one iteration of the loop that creates the threads (lines 646-658)
ShadowSpawnThread ==
    /\ pass = "shadow"
    /\ sPc = "spawn"
    /\ sWorkerPc' = Append(sWorkerPc, "fetch")
    /\ sWorkerC' = Append(sWorkerC, 0)
    /\ sPc' = IF Len(sWorkerPc) + 1
                    = ShadowWorkerCount(sRequestedThreads, sCascades, sCtxCount)
              THEN "join" ELSE "spawn"
    /\ UNCHANGED << buildVars, calcVars, featVars, pipeVars, cacheVars, pass, geoVars,
                    sCascades, sCtxCount, sRequestedThreads, sNext,
                    sRecorded, sC, sLog, sFinished >>

\* thread t: const uint32_t c = next.fetch_add(1u); if (c >= cascades) break;
ShadowWorkerFetch(t) ==
    /\ pass = "shadow"
    /\ t \in 1..Len(sWorkerPc)
    /\ sWorkerPc[t] = "fetch"
    /\ sNext' = sNext + 1
    /\ IF sNext >= sCascades
       THEN /\ sWorkerPc' = [sWorkerPc EXCEPT ![t] = "done"]
            /\ sFinished' = Append(sFinished, t - 1)
            /\ UNCHANGED sWorkerC
       ELSE /\ sWorkerPc' = [sWorkerPc EXCEPT ![t] = "record"]
            /\ sWorkerC' = [sWorkerC EXCEPT ![t] = sNext]
            /\ UNCHANGED sFinished
    /\ UNCHANGED << buildVars, calcVars, featVars, pipeVars, cacheVars, pass, geoVars,
                    sPc, sCascades, sCtxCount, sRequestedThreads,
                    sRecorded, sC, sLog >>

\* thread t: RecordCascade(dc, c), which returns at once when dc is null
ShadowWorkerRecord(t) ==
    /\ pass = "shadow"
    /\ t \in 1..Len(sWorkerPc)
    /\ sWorkerPc[t] = "record"
    /\ IF sCtxCount = 0
       THEN UNCHANGED sRecorded
       ELSE \E ok \in BOOLEAN :
               sRecorded' = RecordCascade(sRecorded, sWorkerC[t], t - 1, ok)
    /\ sWorkerPc' = [sWorkerPc EXCEPT ![t] = "fetch"]
    /\ UNCHANGED << buildVars, calcVars, featVars, pipeVars, cacheVars, pass, geoVars,
                    sPc, sCascades, sCtxCount, sRequestedThreads, sNext,
                    sWorkerC, sC, sLog, sFinished >>

\* join returns without waiting
ThreadEndedAlways(pc) == TRUE

\* std::thread::join returns once the thread function has returned
ThreadEnded(pc) == pc = "done"

\* one iteration of for (auto& t : threads) t.join();
ShadowJoinThread ==
    /\ pass = "shadow"
    /\ sPc = "join"
    /\ sC < Len(sWorkerPc)
    /\ ThreadEnded(sWorkerPc[sC + 1])
    /\ sC' = IF sC + 1 = Len(sWorkerPc) THEN 0 ELSE sC + 1
    /\ sPc' = IF sC + 1 = Len(sWorkerPc) THEN "replay" ELSE "join"
    /\ UNCHANGED << buildVars, calcVars, featVars, pipeVars, cacheVars, pass, geoVars,
                    sCascades, sCtxCount, sRequestedThreads, sNext, sWorkerPc,
                    sWorkerC, sRecorded, sLog, sFinished >>

\* one iteration of the loop that executes the command lists (665-674)
ShadowReplaySlot ==
    /\ pass = "shadow"
    /\ sPc = "replay"
    /\ sC < sCascades
    /\ sLog' = IF sRecorded[sC + 1].present
               THEN Append(sLog, [slot |-> sC, by |-> sRecorded[sC + 1].by,
                                  kind |-> "list"])
               ELSE sLog
    /\ sC' = sC + 1
    /\ sPc' = IF sC + 1 = sCascades THEN "done" ELSE "replay"
    /\ UNCHANGED << buildVars, calcVars, featVars, pipeVars, cacheVars, pass, geoVars,
                    sCascades, sCtxCount, sRequestedThreads, sNext, sWorkerPc,
                    sWorkerC, sRecorded, sFinished >>

----------------------------------------------------------------------------
(***************************************************************************)
(* What lives as long as the device: the instance buffer                   *)
(* (EnsureInstanceBuffer), the material cache and the program cache (the   *)
(* lambdas GetOrCreateMaterialGpu and GetOrCreateProgram of                *)
(* RenderGeometryPass), and what Shutdown and Initialize do to them.       *)
(* mMaterialCache is a set of [key, program, materialCB, alphaBlend, born],*)
(* mProgramCache a set of [key, born]; born numbers the creations          *)
(* (history only), a program or buffer pointer is 0 when null.             *)
(***************************************************************************)
\* the first capacity of the instance buffer
InstanceBaseline == 1024

\* MaterialShadingModel::Pbr, the shading model a material has by default
ShadingModelPbr == 0

InstanceCounts ==
    { 0, 1, InstanceBaseline, InstanceBaseline + 1, 2 * InstanceBaseline + 1,
      MaxRequest }

NoEnsure == [called |-> FALSE, n |-> 0, before |-> 0, after |-> 0]

NoResolve == [called |-> FALSE, mat |-> MatA, seen |-> FALSE, created |-> FALSE,
              entry |-> [key |-> 0, program |-> 0, materialCB |-> 0,
                         alphaBlend |-> FALSE, born |-> 0]]

\* a default-constructed render system: no buffer, empty caches
CacheIdle ==
    /\ mInstanceCapacity = 0 /\ mInstanceVB = FALSE
    /\ mMaterialCache = { } /\ mProgramCache = { }
    /\ gpuCreations = 0 /\ resolvedMats = { } /\ capHigh = 0
    /\ lastResolve = NoResolve /\ lastEnsure = NoEnsure /\ cacheCalls = 0

\* while (newCapacity < requiredInstanceCount) newCapacity *= 2;
RECURSIVE GrowCapacity(_, _)
GrowCapacity(newCapacity, requiredInstanceCount) ==
    IF newCapacity < requiredInstanceCount
    THEN GrowCapacity(newCapacity * 2, requiredInstanceCount)
    ELSE newCapacity

\* EnsureInstanceBuffer with a buffer of exactly the requested size
EnsureInstanceBufferExactFit(cap, vb, n, devOk, createOk) ==
    IF ~ devOk THEN [cap |-> cap, vb |-> vb]
    ELSE IF n <= cap /\ vb THEN [cap |-> cap, vb |-> vb]
    ELSE [cap |-> IF createOk THEN n ELSE cap, vb |-> createOk]

\* EnsureInstanceBuffer(device, requiredInstanceCount) on mInstanceCapacity
\* and mInstanceVB; devOk: device.Device() is non-null, createOk:
\* CreateBuffer succeeds
EnsureInstanceBuffer(cap, vb, n, devOk, createOk) ==
    IF ~ devOk THEN [cap |-> cap, vb |-> vb]
    ELSE IF n <= cap /\ vb THEN [cap |-> cap, vb |-> vb]
    ELSE LET newCapacity ==
                 GrowCapacity(IF cap = 0 THEN InstanceBaseline ELSE cap, n)
         IN  [cap |-> IF createOk THEN newCapacity ELSE cap, vb |-> createOk]

\* "unlit", "unlit_color", "rim", "rim_glow", "rim_outline_glow"
UnlitNames ==
    { << 117, 110, 108, 105, 116 >>,
      << 117, 110, 108, 105, 116, 95, 99, 111, 108, 111, 114 >> }

RimNames ==
    { << 114, 105, 109 >>,
      << 114, 105, 109, 95, 103, 108, 111, 119 >>,
      << 114, 105, 109, 95, 111, 117, 116, 108, 105, 110, 101, 95, 103, 108,
         111, 119 >> }

\* ResolveShadingModel: the material's shading model, or for a Pbr material
\* the one its shader name stands for ([named |-> ...] when derived)
ResolveShadingModel(mat) ==
    IF mat.shadingModel = ShadingModelPbr /\ mat.shader \in UnlitNames
    THEN [named |-> "Unlit", value |-> 0]
    ELSE IF mat.shadingModel = ShadingModelPbr /\ mat.shader \in RimNames
    THEN [named |-> "RimGlow", value |-> 0]
    ELSE [named |-> "", value |-> mat.shadingModel]

\* the cache key of the program a material asks for: its own .hlsl/.hlsli
\* file when custom shaders are allowed, else mShaderPath with the define
\* KING_SHADING_MODEL (lines 2589-2595, 2549)
ProgramKeyOf(mat, allowCustom) ==
    IF (EndsWithI(mat.shader, SuffixHlsl) \/ EndsWithI(mat.shader, SuffixHlsli))
          /\ allowCustom
    THEN [hlslPath |-> mat.shader, defines |-> << >>]
    ELSE [hlslPath |-> << >>, defines |-> << ResolveShadingModel(mat) >>]

\* GetOrCreateProgram: the cached program, or a new one that is cached only
\* when its creation succeeded (null otherwise)
GetOrCreateProgram(progCache, key, progOk, serial) ==
    IF \E e \in progCache : e.key = key
    THEN [progCache |-> progCache,
          program |-> (CHOOSE e \in progCache : e.key = key).born]
    ELSE IF ~ progOk THEN [progCache |-> progCache, program |-> 0]
    ELSE [progCache |-> progCache \cup { [key |-> key, born |-> serial] },
          program |-> serial]

\* GetOrCreateMaterialGpu that never looks the key up
GetOrCreateMaterialGpuNoLookup(matCache, progCache, key, mat, allowCustom, progOk, cbOk, serial) ==
    LET p == GetOrCreateProgram(progCache, ProgramKeyOf(mat, allowCustom),
                                progOk, serial)
        mg == [key |-> key, program |-> p.program,
               materialCB |-> IF cbOk THEN serial ELSE 0,
               alphaBlend |-> (mat.blendMode = 1), born |-> serial]
    IN  [matCache |-> { e \in matCache : e.key # key } \cup { mg },
         progCache |-> p.progCache, entry |-> mg, created |-> TRUE]

\* GetOrCreateMaterialGpu with a cache that holds one entry at most
GetOrCreateMaterialGpuSingleEntry(matCache, progCache, key, mat, allowCustom, progOk, cbOk, serial) ==
    IF \E e \in matCache : e.key = key
    THEN [matCache |-> matCache, progCache |-> progCache,
          entry |-> CHOOSE e \in matCache : e.key = key, created |-> FALSE]
    ELSE LET r == GetOrCreateMaterialGpuNoLookup(matCache, progCache, key, mat,
                                                 allowCustom, progOk, cbOk, serial)
         IN  [r EXCEPT !.matCache = { r.entry }]

\* GetOrCreateMaterialGpu(key, mat): the cached entry, or a new entry - its
\* program from GetOrCreateProgram, its constant buffer from CreateBuffer,
\* each null on failure - which is cached whatever failed
GetOrCreateMaterialGpu(matCache, progCache, key, mat, allowCustom, progOk, cbOk, serial) ==
    IF \E e \in matCache : e.key = key
    THEN [matCache |-> matCache, progCache |-> progCache,
          entry |-> CHOOSE e \in matCache : e.key = key, created |-> FALSE]
    ELSE LET p == GetOrCreateProgram(progCache, ProgramKeyOf(mat, allowCustom),
                                     progOk, serial)
             mg == [key |-> key, program |-> p.program,
                    materialCB |-> IF cbOk THEN serial ELSE 0,
                    alphaBlend |-> (mat.blendMode = 1), born |-> serial]
         IN  [matCache |-> matCache \cup { mg }, progCache |-> p.progCache,
              entry |-> mg, created |-> TRUE]

\* the loop of lines 2630-2633 from index i on: frameMaterials[i] =
\* GetOrCreateMaterialGpu(frame.materialKeys[i], frame.materials[i]); st is
\* [matCache, progCache, created]
RECURSIVE ResolveFrameMaterials(_, _, _, _, _, _)
ResolveFrameMaterials(st, f, i, allowCustom, gpuOk, serial) ==
    IF i > Len(f.materials) THEN st
    ELSE Only({ ResolveFrameMaterials(
                    [matCache |-> r.matCache, progCache |-> r.progCache,
                     created |-> st.created + (IF r.created THEN 1 ELSE 0)],
                    f, i + 1, allowCustom, gpuOk, serial)
                : r \in { GetOrCreateMaterialGpu(st.matCache, st.progCache,
                                                 f.materialKeys[i], f.materials[i],
                                                 allowCustom, gpuOk, gpuOk,
                                                 serial + st.created + 1) } })

\* Shutdown that releases what the entries point to and keeps the entries
ShutdownKeepsMaterialCache ==
    /\ mInstanceVB' = FALSE
    /\ mInstanceCapacity' = 0
    /\ mMaterialCache' = { [e EXCEPT !.program = 0, !.materialCB = 0]
                            : e \in mMaterialCache }
    /\ mProgramCache' = { }
    /\ resolvedMats' = { }
    /\ capHigh' = 0
    /\ lastResolve' = NoResolve
    /\ lastEnsure' = NoEnsure

\* Shutdown on the device-lifetime state (lines 865-877, 951-954): the
\* buffer is released, the capacity zeroed, both caches cleared
ShutdownDeviceState ==
    /\ mInstanceVB' = FALSE
    /\ mInstanceCapacity' = 0
    /\ mMaterialCache' = { }
    /\ mProgramCache' = { }
    /\ resolvedMats' = { }
    /\ capHigh' = 0
    /\ lastResolve' = NoResolve
    /\ lastEnsure' = NoEnsure

----------------------------------------------------------------------------
(***************************************************************************)
(* The optional features of RenderGeometryPass: the HDR target and the     *)
(* SSAO normal/depth targets (EnsureHdrTargets), the cascaded shadow map   *)
(* (ShadowsD3D11::EnsureResources, ComputeCascades, the shadow pass), the  *)
(* point-shadow cubemap (EnsurePointShadowResources, the point-shadow      *)
(* pass), and the geometry draws that follow them.                         *)
(*                                                                         *)
(* A resource group is created together or fails at its first creation:   *)
(* mHdrTargets is [hdr, gbuf, sized] (the HDR texture with its views, the  *)
(* normal and depth targets with theirs, mHdrW/mHdrH equal to the back     *)
(* buffer), mShadowRes is [views, rs] (the shadow texture with its DSVs    *)
(* and SRV, the rasterizer state).  What Initialize creates once (the      *)
(* shadow module with its shader, constant buffers and samplers, the       *)
(* point-shadow shaders and constant buffer) exists; Map succeeds; the     *)
(* SSAO pass's own targets (EnsureSsaoTargets) are created when asked for. *)
(* Strengths are in units of 1.0.                                          *)
(***************************************************************************)
\* RenderSettings::pointShadowMapSize and pointShadowStrength (defaults)
PointShadowMapSize == 1024

PointShadowStrength == 1

\* the faces of the point-shadow cubemap (for (face = 0; face < 6; ++face))
CubeFaces == 6

\* settings.shadowStrength as the caller may pass it: negative, zero, above 1
ShadowStrengths == { -1, 0, 2 }

\* the primary directional light: none in the scene, one that does not cast
\* shadows, one that does
SunKinds == { "none", "no_cast", "casts" }

\* RenderSettings, as far as the features read them; hdrTonemap is
\* settings.enableHdr && settings.enableTonemap && mAllowPostProcessing
PassSettings ==
    [ enableSsao : BOOLEAN, enableShadows : BOOLEAN, enablePointShadows : BOOLEAN,
      hdrTonemap : BOOLEAN, shadowStrength : ShadowStrengths ]

\* the scene of a frame: its sun, whether a point light with a range and an
\* intensity is among the lights, whether the prepared frame has instances,
\* and the number of snapshot items with a mesh and the casts-shadow flag
PassScenes ==
    [ sun : SunKinds, pointLight : BOOLEAN, visible : BOOLEAN, casters : 0..1 ]

\* the creations that fail during one pass: any set of these, the rasterizer
\* state being created only after the shadow views
FailingCreations ==
    { "hdr", "gbuffer", "shadow_views", "shadow_rs", "point", "instance" }

FailureSets ==
    { fails \in SUBSET FailingCreations :
        /\ Cardinality(fails) <= MaxFailures
        /\ ~ ({ "shadow_views", "shadow_rs" } \subseteq fails) }

NoTargets == [hdr |-> FALSE, gbuf |-> FALSE, sized |-> FALSE]

NoShadowRes == [views |-> FALSE, rs |-> FALSE]

NoPass ==
    [ called |-> FALSE,
      settings |-> [enableSsao |-> FALSE, enableShadows |-> FALSE,
                    enablePointShadows |-> FALSE, hdrTonemap |-> FALSE,
                    shadowStrength |-> 0],
      scene |-> [sun |-> "none", pointLight |-> FALSE, visible |-> FALSE,
                 casters |-> 0],
      failed |-> { }, returned |-> "none", cascades |-> "not_called",
      doShadows |-> FALSE, shadowDraws |-> 0, pointShadowDraws |-> 0,
      geometryDraws |-> 0 ]

\* a render system after Initialize, before its first frame
FeatIdle ==
    /\ mHdrTargets = NoTargets
    /\ mShadowRes = NoShadowRes
    /\ mPointShadowSize = 0
    /\ lastPass = NoPass
    /\ passCount = 0

\* std::clamp(x, 0.0f, 1.0f)
Clamp01(x) == IF x < 0 THEN 0 ELSE IF x > 1 THEN 1 ELSE x

\* the early returns of EnsureHdrTargets (lines 1279-1287)
HdrTargetsCurrent(t, needSsao) == t.hdr /\ t.sized /\ (~ needSsao \/ t.gbuf)

\* EnsureHdrTargets(device, needSsao): everything is released, then the HDR
\* target, then with needSsao the normal and depth targets are created; the
\* function returns at the first failure, before mHdrW and mHdrH are set
EnsureHdrTargets(t, needSsao, fails) ==
    IF HdrTargetsCurrent(t, needSsao) THEN t
    ELSE IF "hdr" \in fails THEN [hdr |-> FALSE, gbuf |-> FALSE, sized |-> t.sized]
    ELSE IF needSsao /\ "gbuffer" \in fails
         THEN [hdr |-> TRUE, gbuf |-> FALSE, sized |-> t.sized]
    ELSE [hdr |-> TRUE, gbuf |-> needSsao, sized |-> TRUE]

\* the creations of EnsureHdrTargets that were made and failed
HdrTargetsFailed(t, needSsao, fails) ==
    IF HdrTargetsCurrent(t, needSsao) THEN { }
    ELSE IF "hdr" \in fails THEN { "hdr" }
    ELSE IF needSsao /\ "gbuffer" \in fails THEN { "gbuffer" }
    ELSE { }

\* the early return of ShadowsD3D11::EnsureResources (line 225)
ShadowResCurrent(r) == r.views /\ r.rs

\* ShadowsD3D11::EnsureResources: the old objects are released, then the
\* texture, the DSVs and the SRV are created, with a return at the first
\* failure, then the rasterizer state, whose result is not looked at
EnsureResources(r, fails) ==
    IF ShadowResCurrent(r) THEN r
    ELSE IF "shadow_views" \in fails THEN [views |-> FALSE, rs |-> FALSE]
    ELSE [views |-> TRUE, rs |-> "shadow_rs" \notin fails]

\* the creations of EnsureResources that were made and failed
ShadowResFailed(r, fails) ==
    IF ShadowResCurrent(r) THEN { }
    ELSE fails \cap { "shadow_views", "shadow_rs" }

\* ComputeCascades without the test of settings.strength
ComputeCascadesAnyStrength(enable, strength, r, vsShadow) ==
    ~ (~ enable \/ ~ r.views \/ ~ vsShadow)

\* ShadowsD3D11::ComputeCascades, its result: line 331,
\* if (!settings.enable || settings.strength <= 0.0f || !mShadowSRV ||
\*     !mShadowDSV[0] || !mVSShadow) return false;  and true at the end
ComputeCascades(enable, strength, r, vsShadow) ==
    ~ (~ enable \/ strength <= 0 \/ ~ r.views \/ ~ vsShadow)

\* what Initialize created once and the passes test: mShadows, mVSShadow and
\* the shadow samplers, mVSPointShadow, mPSPointShadow and mPointShadowCB
InitializedStatics == TRUE

\* RenderGeometryPass from its first line to the geometry draws, on the
\* resources res = [hdr, shadow, point, cap, vb], with the settings s, the
\* scene sc and the creations of fails failing.  The result has the
\* resources as the pass leaves them and what the pass did: failed, the
\* creations made that failed; returned, where it returned; cascades, whether
\* ComputeCascades was called and what it returned; doShadows; and the
\* number of draw calls issued in the shadow pass, in the point-shadow pass
\* and for the geometry.
RenderGeometryPass(res, s, sc, fails) ==
    LET doSsao == s.enableSsao
        doShadowsFeature == s.enableShadows
        doHdrTarget == s.hdrTonemap \/ doSsao
        createOk == "instance" \notin fails
        hdr1 == IF doHdrTarget THEN EnsureHdrTargets(res.hdr, doSsao, fails)
                ELSE res.hdr
        sh1 == IF doShadowsFeature /\ InitializedStatics
               THEN EnsureResources(res.shadow, fails) ELSE res.shadow
        failed1 ==
            (IF doHdrTarget THEN HdrTargetsFailed(res.hdr, doSsao, fails) ELSE { })
            \cup (IF doShadowsFeature /\ InitializedStatics
                  THEN ShadowResFailed(res.shadow, fails) ELSE { })
        \* mainRtv: mHdrRTV or the back buffer's view
        mainRtv == IF doHdrTarget THEN hdr1.hdr ELSE TRUE
        early == [ res |-> [res EXCEPT !.hdr = hdr1, !.shadow = sh1],
                   failed |-> failed1, returned |-> "none",
                   cascades |-> "not_called", doShadows |-> FALSE,
                   shadowDraws |-> 0, pointShadowDraws |-> 0, geometryDraws |-> 0 ]
        \* lines 1806-1865
        strength == Clamp01(s.shadowStrength)
        setup == doShadowsFeature /\ sc.sun = "casts" /\ InitializedStatics
        computed == setup /\ ComputeCascades(s.enableShadows, strength, sh1,
                                             InitializedStatics)
        doShadows == computed /\ sh1.views /\ InitializedStatics
        \* lines 1907-2165: the shadow pass; ShadowsD3D11::Render returns
        \* without a draw when mShadowDSV[0], mShadowRS or instanceVB is null
        shadowPass == doShadows /\ Clamp01(strength) > 0 /\ InitializedStatics
        shadowUpload == shadowPass /\ sc.casters > 0
        b1 == IF shadowUpload
              THEN EnsureInstanceBuffer(res.cap, res.vb, sc.casters, TRUE, createOk)
              ELSE [cap |-> res.cap, vb |-> res.vb]
        shadowDraws == IF shadowUpload /\ b1.vb /\ sh1.views /\ sh1.rs
                       THEN sc.casters ELSE 0
        \* lines 1868-1885 and 2171-2389: the point-shadow pass
        pointStrength == Clamp01(PointShadowStrength)
        pointShadowFarZ == s.enablePointShadows /\ pointStrength > 0 /\ sc.pointLight
        pointPass == pointShadowFarZ /\ s.enablePointShadows /\ pointStrength > 0
                     /\ InitializedStatics
        pointCreate == pointPass /\ res.point = 0
        pointReady == pointPass /\ (res.point # 0 \/ "point" \notin fails)
        pt1 == IF pointCreate /\ "point" \notin fails THEN PointShadowMapSize
               ELSE res.point
        pointUpload == pointReady /\ sc.casters > 0
        b2 == IF pointUpload
              THEN EnsureInstanceBuffer(b1.cap, b1.vb, sc.casters, TRUE, createOk)
              ELSE b1
        pointShadowDraws == IF pointUpload /\ b2.vb THEN CubeFaces * sc.casters ELSE 0
        \* lines 2683-2694 and the draws of the frame's batches
        b3 == EnsureInstanceBuffer(b2.cap, b2.vb, 1, TRUE, createOk)
        failed2 ==
            failed1
            \cup (IF pointCreate /\ "point" \in fails THEN { "point" } ELSE { })
            \cup (IF ~ b3.vb THEN { "instance" } ELSE { })
    IN  IF ~ mainRtv THEN [early EXCEPT !.returned = "no_main_rtv"]
        ELSE IF doSsao /\ ~ hdr1.gbuf THEN [early EXCEPT !.returned = "no_gbuffer"]
        ELSE IF ~ sc.visible THEN [early EXCEPT !.returned = "empty_frame"]
        ELSE [ res |-> [hdr |-> hdr1, shadow |-> sh1, point |-> pt1,
                        cap |-> b3.cap, vb |-> b3.vb],
               failed |-> failed2,
               returned |-> IF b3.vb THEN "drawn" ELSE "no_instance_buffer",
               cascades |-> IF ~ setup THEN "not_called"
                            ELSE IF computed THEN "true" ELSE "false",
               doShadows |-> doShadows,
               shadowDraws |-> shadowDraws,
               pointShadowDraws |-> pointShadowDraws,
               geometryDraws |-> IF b3.vb THEN 1 ELSE 0 ]


(***************************************************************************)
(* The frame pipeline: main() (main.cpp), RenderSystemD3D11::Initialize,   *)
(* Shutdown, OnDeviceReset, StartWorker, StopWorker, EnqueueBuild,         *)
(* ConsumeReadyFrame and the head of RenderGeometryPass.                   *)
(*                                                                         *)
(* A snapshot is [tag, items] and a prepared frame is kept as [tag, frame]:*)
(* tag is the number of the frame whose BuildSnapshot made the items       *)
(* (history only; 0: none).                                                *)
(***************************************************************************)
EmptySnapshot == [tag |-> 0, items |-> << >>]

EmptySlot == [tag |-> 0, frame |-> EmptyFrame]

NoRender == [n |-> 0, snap |-> 0]

NoConsume == [called |-> FALSE, ok |-> FALSE]

\* a scene with visible renderers, and one with none
FrameInputs ==
    { [items |-> SceneA, frustum |-> BoxFrustum(5)],
      [items |-> << >>, frustum |-> BoxFrustum(2)] }

\* the thread function has been entered and has not returned
WorkerRunning == workerPc \notin { "none", "exited" }

\* the state of a default-constructed RenderSystemD3D11 (the member
\* initializers of render_system_d3d11.h), no worker thread, nothing created
PipeIdle ==
    /\ mainPc = "boot" /\ sdRet = "init" /\ stopRet = "shutdown"
    /\ booted = FALSE /\ frameNo = 0 /\ resets = 0
    /\ passFrustum = BoxFrustum(2) /\ passFrame = EmptySlot
    /\ mUsePrepareWorker = TRUE
    /\ mWorkerExit = FALSE /\ mPendingValid = FALSE /\ mReadyValid = FALSE
    /\ mPendingItems = EmptySnapshot /\ mPendingFrustum = BoxFrustum(2)
    /\ mReadyFrame = EmptySlot /\ mSnapshotScratch = EmptySnapshot
    /\ mutex = "free" /\ cvSignal = FALSE
    /\ workerPc = "none" /\ workerItems = EmptySnapshot
    /\ workerFr = BoxFrustum(2) /\ workerFrame = EmptySlot
    /\ rsResources = FALSE /\ meshBuffers = FALSE /\ deviceAlive = TRUE
    /\ taken = << >> /\ lastRender = NoRender /\ maxSnapBefore = 0
    /\ releasedWhileRunning = { }
    /\ enqueued = { } /\ nEnq = 0 /\ nPub = 0 /\ nTrue = 0
    /\ lastConsume = NoConsume

(***************************************************************************)
(* The worker thread (the lambda of StartWorker, lines 446-475).  It holds *)
(* mWorkMutex in "wait_pred" and "publish" only.  A thread blocked in      *)
(* mWorkCv.wait leaves it on a notification or spuriously, and re-acquires *)
(* the mutex before it evaluates the predicate again.                      *)
(***************************************************************************)
\* the lock kept over the build
KeepLocked(holder) == holder

\* the unique_lock of lines 453-463 goes out of scope before the build
UnlockAtScopeEnd(holder) == "free"

\* a notification that reaches nobody
NotifyLost(pc) == FALSE

\* mWorkCv.notify_all / notify_one (lines 485, 1049): a notification is
\* delivered exactly when the worker is blocked in mWorkCv.wait
NotifyWaiter(pc) == pc = "cv_blocked"

\* a lock scope that never takes mWorkMutex
LockNotTaken(thread) == "free"

\* std::unique_lock / std::lock_guard on mWorkMutex (lines 455, 470): the
\* constructing thread holds the mutex until the scope ends
LockHeldBy(thread) == thread

WorkerLock ==
    /\ workerPc = "lock_wait"
    /\ mutex = "free"
    /\ mutex' = LockHeldBy("worker")
    /\ workerPc' = "wait_pred"
    /\ UNCHANGED << otherVars, mainVars, resourceVars, historyVars,
                    cfgPrepareThreads, mUsePrepareWorker, mWorkerExit, mPendingValid,
                    mReadyValid, mPendingItems, mPendingFrustum, mReadyFrame,
                    mSnapshotScratch, cvSignal, workerItems, workerFr, workerFrame >>

\* the predicate is false: wait releases the mutex and blocks
WorkerBlock ==
    /\ workerPc = "wait_pred"
    /\ ~ (mWorkerExit \/ mPendingValid)
    /\ mutex' = "free"
    /\ cvSignal' = FALSE
    /\ workerPc' = "cv_blocked"
    /\ UNCHANGED << otherVars, mainVars, resourceVars, historyVars,
                    cfgPrepareThreads, mUsePrepareWorker, mWorkerExit, mPendingValid,
                    mReadyValid, mPendingItems, mPendingFrustum, mReadyFrame,
                    mSnapshotScratch, workerItems, workerFr, workerFrame >>

WorkerWakeNotified ==
    /\ workerPc = "cv_blocked"
    /\ cvSignal
    /\ mutex = "free"
    /\ mutex' = "worker"
    /\ cvSignal' = FALSE
    /\ workerPc' = "wait_pred"
    /\ UNCHANGED << otherVars, mainVars, resourceVars, historyVars,
                    cfgPrepareThreads, mUsePrepareWorker, mWorkerExit, mPendingValid,
                    mReadyValid, mPendingItems, mPendingFrustum, mReadyFrame,
                    mSnapshotScratch, workerItems, workerFr, workerFrame >>

WorkerWakeSpurious ==
    /\ workerPc = "cv_blocked"
    /\ ~ cvSignal
    /\ mutex = "free"
    /\ mutex' = "worker"
    /\ workerPc' = "wait_pred"
    /\ UNCHANGED << otherVars, mainVars, resourceVars, historyVars,
                    cfgPrepareThreads, mUsePrepareWorker, mWorkerExit, mPendingValid,
                    mReadyValid, mPendingItems, mPendingFrustum, mReadyFrame,
                    mSnapshotScratch, cvSignal, workerItems, workerFr, workerFrame >>

\* if (mWorkerExit) return;
WorkerExit ==
    /\ workerPc = "wait_pred"
    /\ mWorkerExit
    /\ mutex' = "free"
    /\ workerPc' = "exited"
    /\ UNCHANGED << otherVars, mainVars, resourceVars, historyVars,
                    cfgPrepareThreads, mUsePrepareWorker, mWorkerExit, mPendingValid,
                    mReadyValid, mPendingItems, mPendingFrustum, mReadyFrame,
                    mSnapshotScratch, cvSignal, workerItems, workerFr, workerFrame >>

\* items.swap(mPendingItems); fr = mPendingFrustum; mPendingValid = false;
WorkerTakePending ==
    /\ workerPc = "wait_pred"
    /\ ~ mWorkerExit
    /\ mPendingValid
    /\ workerItems' = mPendingItems
    /\ mPendingItems' = workerItems
    /\ workerFr' = mPendingFrustum
    /\ mPendingValid' = FALSE
    /\ mutex' = UnlockAtScopeEnd(mutex)
    /\ workerPc' = "build"
    /\ UNCHANGED << otherVars, mainVars, resourceVars, historyVars,
                    cfgPrepareThreads, mUsePrepareWorker, mWorkerExit,
                    mReadyValid, mPendingFrustum, mReadyFrame,
                    mSnapshotScratch, cvSignal, workerFrame >>

\* PreparedFrame frame; BuildPreparedFrame(items, fr, frame);
WorkerBuild ==
    /\ workerPc = "build"
    /\ \E f \in BuildOutcomes(workerItems.items, workerFr) :
          workerFrame' = [tag |-> workerItems.tag, frame |-> f]
    /\ workerPc' = "lock_publish"
    /\ UNCHANGED << otherVars, mainVars, resourceVars, historyVars, memberVars,
                    workerItems, workerFr >>

WorkerLockPublish ==
    /\ workerPc = "lock_publish"
    /\ mutex = "free"
    /\ mutex' = LockHeldBy("worker")
    /\ workerPc' = "publish"
    /\ UNCHANGED << otherVars, mainVars, resourceVars, historyVars,
                    cfgPrepareThreads, mUsePrepareWorker, mWorkerExit, mPendingValid,
                    mReadyValid, mPendingItems, mPendingFrustum, mReadyFrame,
                    mSnapshotScratch, cvSignal, workerItems, workerFr, workerFrame >>

\* mReadyFrame = std::move(frame); mReadyValid = true;
WorkerPublish ==
    /\ workerPc = "publish"
    /\ mReadyFrame' = workerFrame
    /\ mReadyValid' = TRUE
    /\ workerFrame' = EmptySlot
    /\ mutex' = "free"
    /\ workerPc' = "lock_wait"
    /\ nPub' = nPub + 1
    /\ UNCHANGED << otherVars, mainVars, resourceVars,
                    cfgPrepareThreads, mUsePrepareWorker, mWorkerExit, mPendingValid,
                    mPendingItems, mPendingFrustum, mSnapshotScratch, cvSignal,
                    workerItems, workerFr,
                    taken, lastRender, maxSnapBefore, releasedWhileRunning,
                    enqueued, nEnq, nTrue, lastConsume >>

(***************************************************************************)
(* The main thread: Initialize, Shutdown, StartWorker, StopWorker.         *)
(* A section under std::lock_guard is one step, taken when the mutex is    *)
(* free.  The notify that follows a locked section is part of its step: a  *)
(* worker that is not blocked when the section ends evaluates the wait     *)
(* predicate under the mutex before it can block, and sees the flags.      *)
(***************************************************************************)
\* the positions of the main thread whose step is one std::lock_guard scope
\* on mWorkMutex: StopWorker 480-484, Shutdown 974-987, ConsumeReadyFrame
\* 1054-1060, EnqueueBuild 1042-1048 (called from the pass and, in the
\* hand-off harness, directly)
MainLockedSections == { "stop_signal", "shutdown_clear", "consume", "enqueue", "api" }

\* the positions of the main thread whose step reads or writes the pending
\* slot, the ready slot or mWorkerExit: the locked sections and the
\* unlocked resets of StartWorker, lines 442-444
MainSharedSections == MainLockedSections \cup { "start_thread" }

\* the positions of the worker whose step reads or writes them: the wait
\* predicate and what follows it (456-463), the publication (471-472)
WorkerSharedSections == { "wait_pred", "publish" }

\* SpecBuild's variables at rest
BuildIdle ==
    /\ bItems = << >>
    /\ bFrustum = BoxFrustum(2)
    /\ bFrame = EmptyFrame
    /\ bBuilt = FALSE

\* a resource released while the worker thread runs is recorded
NoteRelease(what, existed) ==
    IF existed /\ WorkerRunning THEN releasedWhileRunning \cup { what }
    ELSE releasedWhileRunning

\* main(): renderSystem.Initialize(device, shaderPath), whose first
\* statement is Shutdown()
CallInitialize ==
    /\ mainPc = "boot"
    /\ sdRet' = "init"
    /\ stopRet' = "shutdown"
    /\ mainPc' = "stop_signal"
    /\ UNCHANGED << otherVars, memberVars, workerVars, resourceVars, historyVars,
                    booted, frameNo, resets, passFrustum, passFrame >>

\* StopWorker: mWorkerExit = true; mPendingValid = false; notify_all
StopWorkerSignal ==
    /\ mainPc = "stop_signal"
    /\ mutex = "free"
    /\ mWorkerExit' = TRUE
    /\ mPendingValid' = FALSE
    /\ cvSignal' = NotifyWaiter(workerPc)
    /\ mainPc' = "stop_join"
    /\ UNCHANGED << otherVars, workerVars, resourceVars, historyVars,
                    sdRet, stopRet, booted, frameNo, resets, passFrustum, passFrame,
                    cfgPrepareThreads, mUsePrepareWorker, mReadyValid, mPendingItems,
                    mPendingFrustum, mReadyFrame, mSnapshotScratch, mutex >>

\* Joinable when StopWorker forgets the join
JoinableNever(pc) == FALSE

\* std::thread::joinable: a thread was started and not joined yet
Joinable(pc) == pc # "none"

\* StopWorker: if (mWorker.joinable()) mWorker.join();
StopWorkerJoin ==
    /\ mainPc = "stop_join"
    /\ Joinable(workerPc) => workerPc = "exited"
    /\ workerPc' = IF Joinable(workerPc) THEN "none" ELSE workerPc
    /\ mainPc' = IF stopRet = "shutdown" THEN "shutdown_release" ELSE "start_thread"
    /\ UNCHANGED << otherVars, memberVars, resourceVars, historyVars,
                    sdRet, stopRet, booted, frameNo, resets, passFrustum, passFrame,
                    workerItems, workerFr, workerFrame >>

\* Shutdown, lines 802-974: every GPU object the render system owns
ShutdownRelease ==
    /\ mainPc = "shutdown_release"
    /\ rsResources' = FALSE
    /\ releasedWhileRunning' = NoteRelease("render system", rsResources)
    /\ ShutdownDeviceState
    /\ mainPc' = "shutdown_clear"
    /\ UNCHANGED << buildVars, calcVars, featVars, recVars, gpuCreations, cacheCalls,
                    memberVars, workerVars,
                    sdRet, stopRet, booted, frameNo, resets, passFrustum, passFrame,
                    meshBuffers, deviceAlive,
                    taken, lastRender, maxSnapBefore, enqueued, nEnq, nPub, nTrue,
                    lastConsume >>

\* Shutdown, lines 976-988, then back to the caller: Initialize goes on to
\* create; main() and, when main() returned 1, the destructors go on to the
\* device's Shutdown
ShutdownClear ==
    /\ mainPc = "shutdown_clear"
    /\ mutex = "free"
    /\ mPendingItems' = EmptySnapshot
    /\ mReadyFrame' = EmptySlot
    /\ mPendingValid' = FALSE
    /\ mReadyValid' = FALSE
    /\ mainPc' = IF sdRet = "init" THEN "init_create" ELSE "device_shutdown"
    /\ UNCHANGED << otherVars, workerVars, resourceVars, historyVars,
                    sdRet, stopRet, booted, frameNo, resets, passFrustum, passFrame,
                    cfgPrepareThreads, mUsePrepareWorker, mWorkerExit,
                    mPendingFrustum, mSnapshotScratch, mutex, cvSignal >>

\* Initialize, lines 495-790: creation either fails (return false: main()
\* returns 1 at start-up, leaves the loop after a device reset) or succeeds
\* and sets mUsePrepareWorker from the thread configuration
InitializeCreate ==
    /\ mainPc = "init_create"
    /\ rsResources' = TRUE
    /\ mInstanceCapacity' = 0
    /\ \E ok \in BOOLEAN :
          IF ok
          THEN /\ mUsePrepareWorker' = cfgPrepareThreads
               /\ booted' = TRUE
               /\ stopRet' = "start"
               /\ mainPc' = IF cfgPrepareThreads THEN "stop_signal" ELSE "frame"
               /\ UNCHANGED sdRet
          ELSE /\ mainPc' = IF booted THEN "final_release" ELSE "stop_signal"
               /\ sdRet' = "dtor"
               /\ stopRet' = "shutdown"
               /\ UNCHANGED << mUsePrepareWorker, booted >>
    /\ UNCHANGED << buildVars, calcVars, featVars, recVars, cacheHistoryVars, mInstanceVB,
                    mMaterialCache, mProgramCache, workerVars, historyVars,
                    frameNo, resets, passFrustum, passFrame,
                    cfgPrepareThreads, mWorkerExit, mPendingValid, mReadyValid,
                    mPendingItems, mPendingFrustum, mReadyFrame, mSnapshotScratch,
                    mutex, cvSignal, meshBuffers, deviceAlive >>

\* StartWorker, lines 442-446: the flags are reset and the thread is created
StartWorkerThread ==
    /\ mainPc = "start_thread"
    /\ mWorkerExit' = FALSE
    /\ mPendingValid' = FALSE
    /\ mReadyValid' = FALSE
    /\ workerPc' = "lock_wait"
    /\ workerItems' = EmptySnapshot
    /\ workerFr' = BoxFrustum(2)
    /\ workerFrame' = EmptySlot
    /\ enqueued' = { }
    /\ nEnq' = 0
    /\ nPub' = 0
    /\ nTrue' = 0
    /\ mainPc' = "frame"
    /\ UNCHANGED << otherVars, resourceVars,
                    sdRet, stopRet, booted, frameNo, resets, passFrustum, passFrame,
                    cfgPrepareThreads, mUsePrepareWorker, mPendingItems,
                    mPendingFrustum, mReadyFrame, mSnapshotScratch, mutex, cvSignal,
                    taken, lastRender, maxSnapBefore, releasedWhileRunning,
                    lastConsume >>

(***************************************************************************)
(* The main thread: one iteration of the loop of main() (RenderGeometryPass*)
(* then Present), device loss and the final teardown.                      *)
(***************************************************************************)
\* ConsumeReadyFrame with mReadyValid left set
ConsumeReadyFrameKeepsValid(ready, valid, outFrame) ==
    IF ~ valid
    THEN [ret |-> FALSE, outFrame |-> outFrame, mReadyFrame |-> ready,
          mReadyValid |-> valid]
    ELSE [ret |-> TRUE, outFrame |-> ready, mReadyFrame |-> EmptySlot,
          mReadyValid |-> TRUE]

\* ConsumeReadyFrame as a function of the slot and the caller's frame
ConsumeReadyFrame(ready, valid, outFrame) ==
    IF ~ valid
    THEN [ret |-> FALSE, outFrame |-> outFrame, mReadyFrame |-> ready,
          mReadyValid |-> valid]
    ELSE [ret |-> TRUE, outFrame |-> ready, mReadyFrame |-> EmptySlot,
          mReadyValid |-> FALSE]

\* the window was closed: the loop ends
FrameQuit ==
    /\ mainPc = "frame"
    /\ mainPc' = "final_release"
    /\ UNCHANGED << otherVars, memberVars, workerVars, resourceVars, historyVars,
                    sdRet, stopRet, booted, frameNo, resets, passFrustum, passFrame >>

\* RenderGeometryPass returns before it takes a snapshot (no context, no
\* render target, SSAO targets missing: lines 1605-1715)
FrameEarlyReturn ==
    /\ mainPc = "frame"
    /\ frameNo < MaxFrames
    /\ frameNo' = frameNo + 1
    /\ mainPc' = "present"
    /\ UNCHANGED << otherVars, memberVars, workerVars, resourceVars,
                    sdRet, stopRet, booted, resets, passFrustum, passFrame,
                    taken, lastRender, maxSnapBefore, releasedWhileRunning,
                    enqueued, nEnq, nPub, nTrue, lastConsume >>

\* EnsureMeshBuffers for the scene's meshes, then
\* BuildSnapshot(scene, mSnapshotScratch)
FrameSnapshot ==
    /\ mainPc = "frame"
    /\ frameNo < MaxFrames
    /\ frameNo' = frameNo + 1
    /\ \E inp \in FrameInputs :
          /\ mSnapshotScratch' = [tag |-> frameNo + 1, items |-> inp.items]
          /\ passFrustum' = inp.frustum
          /\ meshBuffers' = (meshBuffers \/ inp.items # << >>)
    /\ passFrame' = EmptySlot
    /\ mainPc' = "consume"
    /\ UNCHANGED << otherVars, workerVars,
                    sdRet, stopRet, booted, resets,
                    cfgPrepareThreads, mUsePrepareWorker, mWorkerExit, mPendingValid,
                    mReadyValid, mPendingItems, mPendingFrustum, mReadyFrame,
                    mutex, cvSignal, rsResources, deviceAlive,
                    taken, lastRender, maxSnapBefore, releasedWhileRunning,
                    enqueued, nEnq, nPub, nTrue, lastConsume >>

\* if (!ConsumeReadyFrame(frame)) BuildPreparedFrame(mSnapshotScratch,
\* frustum, frame); an empty frame ends the pass (lines 1737-1750)
FrameConsumeOrBuild ==
    /\ mainPc = "consume"
    /\ mutex = "free"
    /\ LET c == ConsumeReadyFrame(mReadyFrame, mReadyValid, passFrame)
       IN  /\ mReadyFrame' = c.mReadyFrame
           /\ mReadyValid' = c.mReadyValid
           /\ lastConsume' = [called |-> TRUE, ok |-> c.ret]
           /\ nTrue' = IF c.ret THEN nTrue + 1 ELSE nTrue
           /\ IF c.ret
              THEN passFrame' = c.outFrame
              ELSE \E f \in BuildOutcomes(mSnapshotScratch.items, passFrustum) :
                      passFrame' = [tag |-> mSnapshotScratch.tag, frame |-> f]
    /\ mainPc' = IF passFrame'.frame.instances = << >>
                        \/ passFrame'.frame.batches = << >>
                 THEN "present" ELSE "enqueue"
    /\ UNCHANGED << otherVars, workerVars, resourceVars,
                    sdRet, stopRet, booted, frameNo, resets, passFrustum,
                    cfgPrepareThreads, mUsePrepareWorker, mWorkerExit, mPendingValid,
                    mPendingItems, mPendingFrustum, mSnapshotScratch, mutex, cvSignal,
                    taken, lastRender, maxSnapBefore, releasedWhileRunning,
                    enqueued, nEnq, nPub >>

\* EnqueueBuild(mSnapshotScratch, frustum), line 2393
FrameEnqueue ==
    /\ mainPc = "enqueue"
    /\ IF ~ mUsePrepareWorker
       THEN UNCHANGED << mPendingItems, mSnapshotScratch, mPendingFrustum,
                         mPendingValid, cvSignal, enqueued, nEnq >>
       ELSE /\ mutex = "free"
            /\ mPendingItems' = mSnapshotScratch
            /\ mSnapshotScratch' = mPendingItems
            /\ mPendingFrustum' = passFrustum
            /\ mPendingValid' = TRUE
            /\ cvSignal' = NotifyWaiter(workerPc)
            /\ enqueued' = enqueued \cup { mSnapshotScratch.tag }
            /\ nEnq' = nEnq + 1
    /\ mainPc' = "draw"
    /\ UNCHANGED << otherVars, workerVars, resourceVars,
                    sdRet, stopRet, booted, frameNo, resets, passFrustum, passFrame,
                    cfgPrepareThreads, mUsePrepareWorker, mWorkerExit, mReadyValid,
                    mReadyFrame, mutex,
                    taken, lastRender, maxSnapBefore, releasedWhileRunning,
                    nPub, nTrue, lastConsume >>

\* lines 2630-2989: the frame's materials are resolved, the instance buffer
\* is made large enough, and the frame is drawn - or the pass returns
\* without drawing because there is no instance buffer or it cannot be
\* mapped.  gpuOk: the device creates what it is asked for in this pass;
\* allowCustom: KING_ALLOW_CUSTOM_SHADERS is set.
FrameDraw ==
    /\ mainPc = "draw"
    /\ \E allowCustom \in BOOLEAN, gpuOk \in BOOLEAN, mapOk \in BOOLEAN :
          LET m == ResolveFrameMaterials(
                       [matCache |-> mMaterialCache, progCache |-> mProgramCache,
                        created |-> 0],
                       passFrame.frame, 1, allowCustom, gpuOk, gpuCreations)
              b == EnsureInstanceBuffer(mInstanceCapacity, mInstanceVB,
                                        Len(passFrame.frame.instances), TRUE, gpuOk)
          IN  /\ mMaterialCache' = m.matCache
              /\ mProgramCache' = m.progCache
              /\ gpuCreations' = gpuCreations + m.created
              /\ mInstanceCapacity' = b.cap
              /\ mInstanceVB' = b.vb
              /\ IF b.vb /\ mapOk
                 THEN /\ lastRender' = [n |-> frameNo, snap |-> passFrame.tag]
                      /\ maxSnapBefore' = Max(maxSnapBefore, lastRender.snap)
                 ELSE UNCHANGED << lastRender, maxSnapBefore >>
    /\ mainPc' = "present"
    /\ UNCHANGED << buildVars, calcVars, featVars, recVars, resolvedMats, capHigh, lastResolve,
                    lastEnsure, cacheCalls,
                    memberVars, workerVars, resourceVars,
                    sdRet, stopRet, booted, frameNo, resets, passFrustum, passFrame,
                    taken, releasedWhileRunning, enqueued, nEnq, nPub, nTrue,
                    lastConsume >>

\* device.Present: it succeeds (or fails otherwise, which is only logged),
\* or reports the device lost
Present ==
    /\ mainPc = "present"
    /\ passFrame' = EmptySlot
    /\ \E lost \in BOOLEAN :
          /\ lost => resets < MaxResets
          /\ mainPc' = IF lost THEN "lost_release" ELSE "frame"
    /\ UNCHANGED << otherVars, memberVars, workerVars, resourceVars, historyVars,
                    sdRet, stopRet, booted, frameNo, resets, passFrustum >>

\* main.cpp line 1076: ReleaseSceneMeshBuffers(scene)
LostReleaseMeshBuffers ==
    /\ mainPc = "lost_release"
    /\ resets' = resets + 1
    /\ meshBuffers' = FALSE
    /\ releasedWhileRunning' = NoteRelease("mesh buffers", meshBuffers)
    /\ mainPc' = "recover"
    /\ UNCHANGED << otherVars, memberVars, workerVars,
                    sdRet, stopRet, booted, frameNo, passFrustum, passFrame,
                    rsResources, deviceAlive,
                    taken, lastRender, maxSnapBefore, enqueued, nEnq, nPub, nTrue,
                    lastConsume >>

\* main.cpp line 1077: device.RecoverFromDeviceLost, which is the device's
\* Initialize (Shutdown, then creation); only when it succeeds is
\* renderSystem.OnDeviceReset called, which is Initialize, which starts
\* with Shutdown
RecoverFromDeviceLost ==
    /\ mainPc = "recover"
    /\ releasedWhileRunning' = NoteRelease("device", deviceAlive)
    /\ \E ok \in BOOLEAN :
          /\ deviceAlive' = ok
          /\ IF ok
             THEN /\ sdRet' = "init"
                  /\ stopRet' = "shutdown"
                  /\ mainPc' = "stop_signal"
             ELSE /\ mainPc' = "final_release"
                  /\ UNCHANGED << sdRet, stopRet >>
    /\ UNCHANGED << otherVars, memberVars, workerVars,
                    booted, frameNo, resets, passFrustum, passFrame,
                    rsResources, meshBuffers,
                    taken, lastRender, maxSnapBefore, enqueued, nEnq, nPub, nTrue,
                    lastConsume >>

\* main.cpp lines 1172-1173: ReleaseSceneMeshBuffers(scene), then
\* renderSystem.Shutdown()
FinalReleaseMeshBuffers ==
    /\ mainPc = "final_release"
    /\ meshBuffers' = FALSE
    /\ releasedWhileRunning' = NoteRelease("mesh buffers", meshBuffers)
    /\ sdRet' = "final"
    /\ stopRet' = "shutdown"
    /\ mainPc' = "stop_signal"
    /\ UNCHANGED << otherVars, memberVars, workerVars,
                    booted, frameNo, resets, passFrustum, passFrame,
                    rsResources, deviceAlive,
                    taken, lastRender, maxSnapBefore, enqueued, nEnq, nPub, nTrue,
                    lastConsume >>

\* main.cpp line 1174: device.Shutdown().  The destructors that follow find
\* nothing left to stop or release.
DeviceShutdown ==
    /\ mainPc = "device_shutdown"
    /\ deviceAlive' = FALSE
    /\ releasedWhileRunning' = NoteRelease("device", deviceAlive)
    /\ mainPc' = "done"
    /\ UNCHANGED << otherVars, memberVars, workerVars,
                    sdRet, stopRet, booted, frameNo, resets, passFrustum, passFrame,
                    rsResources, meshBuffers,
                    taken, lastRender, maxSnapBefore, enqueued, nEnq, nPub, nTrue,
                    lastConsume >>

\* the process starts with the device initialized and a default-constructed
\* render system; renderPrepareWorkerThreads is what the configuration says
Init ==
    /\ BuildIdle
    /\ RecIdle
    /\ CacheIdle
    /\ FeatIdle
    /\ CalcIdle
    /\ cfgPrepareThreads \in BOOLEAN
    /\ PipeIdle

Next ==
    \/ CallInitialize \/ StopWorkerSignal \/ StopWorkerJoin \/ ShutdownRelease
    \/ ShutdownClear \/ InitializeCreate \/ StartWorkerThread
    \/ FrameQuit \/ FrameEarlyReturn \/ FrameSnapshot \/ FrameConsumeOrBuild
    \/ FrameEnqueue \/ FrameDraw \/ Present
    \/ LostReleaseMeshBuffers \/ RecoverFromDeviceLost
    \/ FinalReleaseMeshBuffers \/ DeviceShutdown
    \/ WorkerLock \/ WorkerBlock \/ WorkerWakeNotified \/ WorkerWakeSpurious
    \/ WorkerExit \/ WorkerTakePending \/ WorkerBuild \/ WorkerLockPublish
    \/ WorkerPublish

Spec == Init /\ [][Next]_vars

----------------------------------------------------------------------------
(***************************************************************************)
(* SpecSlot: the one-slot hand-off on its own.  The worker has been        *)
(* started; the owner of the slot calls EnqueueBuild and ConsumeReadyFrame *)
(* in any order, with any input of the pool, at most MaxFrames enqueues.   *)
(***************************************************************************)
SlotInputs ==
    FrameInputs \cup { [items |-> SceneB, frustum |-> BoxFrustum(2)] }

InitSlot ==
    /\ BuildIdle
    /\ RecIdle
    /\ CacheIdle
    /\ FeatIdle
    /\ CalcIdle
    /\ cfgPrepareThreads = TRUE
    /\ mainPc = "api" /\ sdRet = "init" /\ stopRet = "start"
    /\ booted = TRUE /\ frameNo = 0 /\ resets = 0
    /\ passFrustum = BoxFrustum(2) /\ passFrame = EmptySlot
    /\ mUsePrepareWorker = TRUE
    /\ mWorkerExit = FALSE /\ mPendingValid = FALSE /\ mReadyValid = FALSE
    /\ mPendingItems = EmptySnapshot /\ mPendingFrustum = BoxFrustum(2)
    /\ mReadyFrame = EmptySlot /\ mSnapshotScratch = EmptySnapshot
    /\ mutex = "free" /\ cvSignal = FALSE
    /\ workerPc = "lock_wait" /\ workerItems = EmptySnapshot
    /\ workerFr = BoxFrustum(2) /\ workerFrame = EmptySlot
    /\ rsResources = TRUE /\ meshBuffers = FALSE /\ deviceAlive = TRUE
    /\ taken = << >> /\ lastRender = NoRender /\ maxSnapBefore = 0
    /\ releasedWhileRunning = { }
    /\ enqueued = { } /\ nEnq = 0 /\ nPub = 0 /\ nTrue = 0
    /\ lastConsume = NoConsume

\* EnqueueBuild(items, frustum) with a fresh snapshot
ApiEnqueueBuild ==
    /\ mainPc = "api"
    /\ frameNo < MaxFrames
    /\ mutex = "free"
    /\ frameNo' = frameNo + 1
    /\ \E inp \in SlotInputs :
          /\ taken' = Append(taken, inp)
          /\ mPendingItems' = [tag |-> frameNo + 1, items |-> inp.items]
          /\ mPendingFrustum' = inp.frustum
    /\ mSnapshotScratch' = mPendingItems
    /\ mPendingValid' = TRUE
    /\ cvSignal' = NotifyWaiter(workerPc)
    /\ enqueued' = enqueued \cup { frameNo + 1 }
    /\ nEnq' = nEnq + 1
    /\ UNCHANGED << otherVars, workerVars, resourceVars,
                    mainPc, sdRet, stopRet, booted, resets, passFrustum, passFrame,
                    cfgPrepareThreads, mUsePrepareWorker, mWorkerExit, mReadyValid,
                    mReadyFrame, mutex,
                    lastRender, maxSnapBefore, releasedWhileRunning,
                    nPub, nTrue, lastConsume >>

\* ConsumeReadyFrame(frame)
ApiConsumeReadyFrame ==
    /\ mainPc = "api"
    /\ mutex = "free"
    /\ LET c == ConsumeReadyFrame(mReadyFrame, mReadyValid, passFrame)
       IN  /\ mReadyFrame' = c.mReadyFrame
           /\ mReadyValid' = c.mReadyValid
           /\ passFrame' = c.outFrame
           /\ lastConsume' = [called |-> TRUE, ok |-> c.ret]
           /\ nTrue' = IF c.ret THEN nTrue + 1 ELSE nTrue
    /\ UNCHANGED << otherVars, workerVars, resourceVars,
                    mainPc, sdRet, stopRet, booted, frameNo, resets, passFrustum,
                    cfgPrepareThreads, mUsePrepareWorker, mWorkerExit, mPendingValid,
                    mPendingItems, mPendingFrustum, mSnapshotScratch, mutex, cvSignal,
                    taken, lastRender, maxSnapBefore, releasedWhileRunning,
                    enqueued, nEnq, nPub >>

NextSlot ==
    \/ ApiEnqueueBuild \/ ApiConsumeReadyFrame
    \/ WorkerLock \/ WorkerBlock \/ WorkerWakeNotified \/ WorkerWakeSpurious
    \/ WorkerTakePending \/ WorkerBuild \/ WorkerLockPublish \/ WorkerPublish

SpecSlot == InitSlot /\ [][NextSlot]_vars

----------------------------------------------------------------------------
(***************************************************************************)
(* SpecStop: the hand-off harness with StopWorker called at any moment -   *)
(* with the worker blocked in the wait, with a job pending, during a build *)
(* or a publication, after at most MaxStopJobs enqueues.  The scheduler is *)
(* fair: a worker thread that can run does run (a spurious wake-up is      *)
(* allowed, never promised), and join returns once the thread function has *)
(* returned.                                                               *)
(***************************************************************************)
\* StopWorker() is entered (as from StartWorker, line 440)
ApiStopWorker ==
    /\ mainPc = "api"
    /\ mainPc' = "stop_signal"
    /\ UNCHANGED << otherVars, memberVars, workerVars, resourceVars, historyVars,
                    sdRet, stopRet, booted, frameNo, resets, passFrustum, passFrame >>

WorkerStep ==
    \/ WorkerLock \/ WorkerBlock \/ WorkerWakeNotified \/ WorkerExit
    \/ WorkerTakePending \/ WorkerBuild \/ WorkerLockPublish \/ WorkerPublish

NextStop ==
    \/ (frameNo < MaxStopJobs /\ ApiEnqueueBuild)
    \/ ApiConsumeReadyFrame \/ ApiStopWorker
    \/ StopWorkerSignal \/ StopWorkerJoin
    \/ WorkerStep \/ WorkerWakeSpurious

SpecStop ==
    InitSlot /\ [][NextStop]_vars /\ WF_vars(WorkerStep) /\ WF_vars(StopWorkerJoin)

----------------------------------------------------------------------------
(***************************************************************************)
(* SpecCache: the device-lifetime state on its own, under at most          *)
(* MaxCacheCalls calls of EnsureInstanceBuffer, GetOrCreateMaterialGpu and *)
(* OnDeviceReset in any order, with any request and any creation outcome.  *)
(***************************************************************************)
\* one EnsureInstanceBuffer call with any request
CacheEnsureInstanceBuffer ==
    /\ cacheCalls < MaxCacheCalls
    /\ cacheCalls' = cacheCalls + 1
    /\ \E n \in InstanceCounts, devOk \in BOOLEAN, createOk \in BOOLEAN :
          LET r == EnsureInstanceBuffer(mInstanceCapacity, mInstanceVB, n,
                                        devOk, createOk)
          IN  /\ mInstanceCapacity' = r.cap
              /\ mInstanceVB' = r.vb
              /\ capHigh' = Max(capHigh, r.cap)
              /\ lastEnsure' = [called |-> TRUE, n |-> n,
                                before |-> mInstanceCapacity, after |-> r.cap]
    /\ UNCHANGED << buildVars, calcVars, featVars, pipeVars, recVars, mMaterialCache, mProgramCache,
                    gpuCreations, resolvedMats, lastResolve >>

\* one GetOrCreateMaterialGpu call, as the loop of line 2632 makes it: the
\* key is the material's MakeMaterialKeyHash
CacheResolveMaterial ==
    /\ cacheCalls < MaxCacheCalls
    /\ cacheCalls' = cacheCalls + 1
    /\ \E mat \in MaterialPool, allowCustom \in BOOLEAN, progOk \in BOOLEAN,
          cbOk \in BOOLEAN :
          LET r == GetOrCreateMaterialGpu(mMaterialCache, mProgramCache,
                                          MaterialKeyOf[mat], mat, allowCustom,
                                          progOk, cbOk, gpuCreations + 1)
          IN  /\ mMaterialCache' = r.matCache
              /\ mProgramCache' = r.progCache
              /\ gpuCreations' = IF r.created THEN gpuCreations + 1 ELSE gpuCreations
              /\ resolvedMats' =
                    IF \E f \in resolvedMats : f.mat = mat THEN resolvedMats
                    ELSE resolvedMats \cup { [mat |-> mat, entry |-> r.entry] }
              /\ lastResolve' = [called |-> TRUE, mat |-> mat,
                                 seen |-> (\E f \in resolvedMats : f.mat = mat),
                                 created |-> r.created, entry |-> r.entry]
    /\ UNCHANGED << buildVars, calcVars, featVars, pipeVars, recVars, mInstanceCapacity, mInstanceVB,
                    capHigh, lastEnsure >>

\* OnDeviceReset: Initialize, which starts with Shutdown and sets
\* mInstanceCapacity = 0 (line 751)
CacheDeviceReset ==
    /\ cacheCalls < MaxCacheCalls
    /\ cacheCalls' = cacheCalls + 1
    /\ ShutdownDeviceState
    /\ UNCHANGED << buildVars, calcVars, featVars, pipeVars, recVars, gpuCreations >>

\* EnsureInstanceBuffer that keeps whatever buffer exists
EnsureInstanceBufferKeepsBuffer(cap, vb, n, devOk, createOk) ==
    IF ~ devOk \/ vb THEN [cap |-> cap, vb |-> vb]
    ELSE [cap |-> IF createOk THEN GrowCapacity(IF cap = 0 THEN InstanceBaseline ELSE cap, n)
                  ELSE cap,
          vb |-> createOk]

\* the EnsureInstanceBuffer calls of RenderGeometryPass
EnsureForUpload(cap, vb, n, devOk, createOk) ==
    EnsureInstanceBuffer(cap, vb, n, devOk, createOk)

\* One upload site: EnsureInstanceBuffer(device, n), then, if mInstanceVB
\* is not null and Map succeeds, memcpy of n instances.  The device is
\* there: the pass returned at its first line otherwise.
UploadAt(site, n, createOk, mapOk) ==
    LET r == EnsureForUpload(mInstanceCapacity, mInstanceVB, n, TRUE, createOk)
    IN  /\ mInstanceCapacity' = r.cap
        /\ mInstanceVB' = r.vb
        /\ lastUpload' = IF r.vb /\ mapOk
                         THEN [site |-> site, n |-> n, capacity |-> r.cap,
                               buffer |-> r.vb]
                         ELSE lastUpload

\* RenderGeometryPass begins: it returns at once without a context, which
\* RenderDeviceD3D11 creates and releases together with the device, and
\* when the frame has no instance
UploadPassBegin ==
    /\ uPc = "idle"
    /\ cacheCalls < MaxCacheCalls
    /\ cacheCalls' = cacheCalls + 1
    /\ \E deviceOk \in BOOLEAN, empty \in BOOLEAN :
          uPc' = IF deviceOk /\ ~ empty THEN "shadow" ELSE "idle"
    /\ lastUpload' = NoUpload
    /\ UNCHANGED << deviceVars, gpuCreations, resolvedMats, capHigh, lastResolve,
                    lastEnsure >>
    /\ UNCHANGED << buildVars, pipeVars, recVars, featVars, uploadOthers >>

\* the shadow pass's upload of mShadowInstancesScratch (lines 2130-2150),
\* skipped when there is no caster
UploadShadow ==
    /\ uPc = "shadow"
    /\ \E n \in InstanceCounts, createOk \in BOOLEAN, mapOk \in BOOLEAN :
          IF n = 0
          THEN UNCHANGED << mInstanceCapacity, mInstanceVB, lastUpload >>
          ELSE UploadAt("shadow", n, createOk, mapOk)
    /\ uPc' = "point"
    /\ UNCHANGED << mMaterialCache, mProgramCache, cacheHistoryVars >>
    /\ UNCHANGED << buildVars, pipeVars, recVars, featVars, uploadOthers >>

\* the point shadow pass's upload (lines 2272-2281)
UploadPointShadow ==
    /\ uPc = "point"
    /\ \E n \in InstanceCounts, createOk \in BOOLEAN, mapOk \in BOOLEAN :
          IF n = 0
          THEN UNCHANGED << mInstanceCapacity, mInstanceVB, lastUpload >>
          ELSE UploadAt("point", n, createOk, mapOk)
    /\ uPc' = "geometry"
    /\ UNCHANGED << mMaterialCache, mProgramCache, cacheHistoryVars >>
    /\ UNCHANGED << buildVars, pipeVars, recVars, featVars, uploadOthers >>

\* the geometry pass's upload of frame.instances (lines 2683-2697); the
\* pass returns when there is no buffer or Map fails
UploadGeometry ==
    /\ uPc = "geometry"
    /\ \E n \in InstanceCounts \ { 0 }, createOk \in BOOLEAN, mapOk \in BOOLEAN :
          UploadAt("geometry", n, createOk, mapOk)
    /\ uPc' = "idle"
    /\ UNCHANGED << mMaterialCache, mProgramCache, cacheHistoryVars >>
    /\ UNCHANGED << buildVars, pipeVars, recVars, featVars, uploadOthers >>

\* an EnsureInstanceBuffer call that is followed by no copy, with or
\* without a device
UploadEnsureOnly == uPc = "idle" /\ CacheEnsureInstanceBuffer

\* OnDeviceReset between two passes
UploadDeviceReset == uPc = "idle" /\ CacheDeviceReset

InitCache ==
    /\ BuildIdle
    /\ cfgPrepareThreads = TRUE
    /\ PipeIdle
    /\ RecIdle
    /\ CacheIdle
    /\ FeatIdle
    /\ CalcIdle

NextCache == CacheEnsureInstanceBuffer \/ CacheResolveMaterial \/ CacheDeviceReset

SpecCache == InitCache /\ [][NextCache]_vars

\* the instance buffer over passes that upload to it, calls without a copy
\* and device resets
NextUpload ==
    \/ UploadPassBegin
    \/ UploadShadow
    \/ UploadPointShadow
    \/ UploadGeometry
    \/ UploadEnsureOnly
    \/ UploadDeviceReset

SpecUpload == InitCache /\ [][NextUpload]_vars

----------------------------------------------------------------------------
(***************************************************************************)
(* SpecPass: RenderGeometryPass called at most MaxPasses times on one      *)
(* render system, each time with any settings, any scene and at most       *)
(* MaxFailures failing creations; OnDeviceReset may be called between two  *)
(* passes.                                                                 *)
(***************************************************************************)
\* one call of RenderGeometryPass, up to its geometry draws
PassRenderGeometry ==
    /\ ~ lastPass.called
    /\ passCount < MaxPasses
    /\ passCount' = passCount + 1
    /\ \E s \in PassSettings, sc \in PassScenes, fails \in FailureSets :
          \E r \in { RenderGeometryPass(
                        [hdr |-> mHdrTargets, shadow |-> mShadowRes,
                         point |-> mPointShadowSize, cap |-> mInstanceCapacity,
                         vb |-> mInstanceVB], s, sc, fails) } :
              /\ mHdrTargets' = r.res.hdr
              /\ mShadowRes' = r.res.shadow
              /\ mPointShadowSize' = r.res.point
              /\ mInstanceCapacity' = r.res.cap
              /\ mInstanceVB' = r.res.vb
              /\ lastPass' = [ called |-> TRUE, settings |-> s, scene |-> sc,
                               failed |-> r.failed, returned |-> r.returned,
                               cascades |-> r.cascades, doShadows |-> r.doShadows,
                               shadowDraws |-> r.shadowDraws,
                               pointShadowDraws |-> r.pointShadowDraws,
                               geometryDraws |-> r.geometryDraws ]
    /\ UNCHANGED << buildVars, calcVars, pipeVars, recVars, mMaterialCache, mProgramCache,
                    cacheHistoryVars >>

\* the pass returns; its arguments and locals are gone
PassReturn ==
    /\ lastPass.called
    /\ lastPass' = NoPass
    /\ UNCHANGED << buildVars, calcVars, pipeVars, recVars, cacheVars, mHdrTargets,
                    mShadowRes, mPointShadowSize, passCount >>

\* OnDeviceReset between two passes: Shutdown releases the targets, the
\* shadow module and the point-shadow cubemap (lines 845-913) with the
\* instance buffer and the caches, and Initialize creates the module anew
PassDeviceReset ==
    /\ ~ lastPass.called
    /\ 0 < passCount /\ passCount < MaxPasses
    /\ mHdrTargets # NoTargets \/ mShadowRes # NoShadowRes \/ mPointShadowSize # 0
       \/ mInstanceVB
    /\ mHdrTargets' = NoTargets
    /\ mShadowRes' = NoShadowRes
    /\ mPointShadowSize' = 0
    /\ ShutdownDeviceState
    /\ UNCHANGED << buildVars, calcVars, pipeVars, recVars, gpuCreations, cacheCalls,
                    lastPass, passCount >>

InitPass ==
    /\ BuildIdle
    /\ cfgPrepareThreads = TRUE
    /\ PipeIdle
    /\ RecIdle
    /\ CacheIdle
    /\ FeatIdle
    /\ CalcIdle

NextPass == PassRenderGeometry \/ PassReturn \/ PassDeviceReset

SpecPass == InitPass /\ [][NextPass]_vars

----------------------------------------------------------------------------
(***************************************************************************)
(* SpecRecord: one run of a recording pass.  Either the draw section of    *)
(* RenderGeometryPass on a prepared frame, first with deferred contexts,   *)
(* then on the immediate path with the same frame and settings; or         *)
(* ShadowsD3D11::Render with its thread and context configuration.         *)
(***************************************************************************)
InitRecord ==
    /\ BuildIdle
    /\ cfgPrepareThreads = TRUE
    /\ PipeIdle
    /\ CacheIdle
    /\ FeatIdle
    /\ CalcIdle
    /\ pass \in { "geometry", "shadow" }
    /\ IF pass = "geometry"
       THEN /\ gPc = "record"
            /\ gFrame \in RecordFrames
            /\ gMeshVb \in { { 1, 2 }, { 1 } }
            /\ gDoSsao \in BOOLEAN
            /\ gNumWorkers \in 1..MaxContexts
            /\ gI = 0 /\ gRecorded = << >>
            /\ gReplayLog = << >> /\ gSubmitted = << >> /\ gImmediate = << >>
            /\ ShadowIdle
       ELSE /\ GeoIdle
            /\ sPc = "start"
            /\ sCascades \in 1..kMaxCascades
            /\ sRequestedThreads \in 0..MaxShadowThreads
            /\ sCtxCount \in 0..DesiredShadowContexts(sRequestedThreads)
            /\ sNext = 0 /\ sWorkerPc = << >> /\ sWorkerC = << >>
            /\ sRecorded = [c \in 1..sCascades |-> NoCascadeList]
            /\ sC = 0 /\ sLog = << >> /\ sFinished = << >>

NextRecord ==
    \/ GeoRecordChunk \/ GeoReplaySlot \/ GeoImmediate
    \/ ShadowBegin \/ ShadowSequentialStep \/ ShadowSpawnThread
    \/ (\E t \in 1..MaxShadowThreads : ShadowWorkerFetch(t))
    \/ (\E t \in 1..MaxShadowThreads : ShadowWorkerRecord(t))
    \/ ShadowJoinThread \/ ShadowReplaySlot

SpecRecord == InitRecord /\ [][NextRecord]_vars

----------------------------------------------------------------------------
(***************************************************************************)
(* SpecBuild: BuildPreparedFrame applied to every snapshot of at most      *)
(* MaxItems items and every frustum of the pool.                           *)
(***************************************************************************)
InitBuild ==
    /\ bItems \in SeqsUpTo(ItemPool, MaxItems)
    /\ bFrustum \in FrustumPool
    /\ bFrame = EmptyFrame
    /\ bBuilt = FALSE
    /\ cfgPrepareThreads = TRUE
    /\ PipeIdle
    /\ RecIdle
    /\ CacheIdle
    /\ FeatIdle
    /\ CalcIdle

BuildCall ==
    /\ ~ bBuilt
    /\ bFrame' \in BuildOutcomes(bItems, bFrustum)
    /\ bBuilt' = TRUE
    /\ UNCHANGED << bItems, bFrustum, pipeVars, recVars, cacheVars, featVars,
                   calcVars >>

NextBuild == BuildCall

SpecBuild == InitBuild /\ [][NextBuild]_vars

----------------------------------------------------------------------------
(***************************************************************************)
(* The frustum test on its own: every sphere with integer centre and       *)
(* radius within the bounds against the frustum of each view volume.       *)
(***************************************************************************)
InitFrustum ==
    /\ BuildIdle
    /\ PipeIdle
    /\ RecIdle
    /\ CacheIdle
    /\ FeatIdle
    /\ cfgPrepareThreads = TRUE
    /\ fBox \in FrustumBoxes
    /\ fPlanes = NoPlanes
    /\ fSphere \in [center : Coords \X Coords \X Coords, radius : 0..MaxRadius]
    /\ fResult = "none"
    /\ CasterIdle
    /\ SplitIdle
    /\ MeshIdle
    /\ UploadIdle

NextFrustum == FrustumExtract \/ FrustumTest

SpecFrustum == InitFrustum /\ [][NextFrustum]_vars

----------------------------------------------------------------------------
(***************************************************************************)
(* The caster batching on its own: every snapshot of at most MaxCasters    *)
(* casters of the pool and every cascade count.                            *)
(***************************************************************************)
InitCasters ==
    /\ BuildIdle
    /\ PipeIdle
    /\ RecIdle
    /\ CacheIdle
    /\ FeatIdle
    /\ cfgPrepareThreads = TRUE
    /\ FrustumIdle
    /\ cSnapshot \in SeqsUpTo(CasterPool, MaxCasters)
    /\ cCascades \in 1..kMaxCascades
    /\ mShadowInstancesScratch = << >>
    /\ mShadowDrawBatchesPerCascade = << >>
    /\ cBatched = FALSE
    /\ SplitIdle
    /\ MeshIdle
    /\ UploadIdle

NextCasters == ShadowBatchCasters

SpecCasters == InitCasters /\ [][NextCasters]_vars

----------------------------------------------------------------------------
(***************************************************************************)
(* The cascade splits on their own: every camera of the pool, every        *)
(* lambda of the grid and every cascade count setting from 0 to one above  *)
(* kMaxCascades.                                                           *)
(***************************************************************************)
InitSplits ==
    /\ BuildIdle
    /\ PipeIdle
    /\ RecIdle
    /\ CacheIdle
    /\ FeatIdle
    /\ cfgPrepareThreads = TRUE
    /\ FrustumIdle
    /\ CasterIdle
    /\ kCamera \in SplitCameras
    /\ kLambda \in Lambdas
    /\ kCascadeCount \in 0..(kMaxCascades + 1)
    /\ outCascadeSplitsNdc = NoSplits
    /\ outCascadeCount = 0
    /\ MeshIdle
    /\ UploadIdle

NextSplits == ComputeCascadeSplits

SpecSplits == InitSplits /\ [][NextSplits]_vars

----------------------------------------------------------------------------
(***************************************************************************)
(* Frames over a scene whose mesh storage changes between frames, with     *)
(* and without the prepare worker.                                         *)
(***************************************************************************)
InitMesh ==
    /\ BuildIdle
    /\ PipeIdle
    /\ RecIdle
    /\ CacheIdle
    /\ FeatIdle
    /\ cfgPrepareThreads = TRUE
    /\ FrustumIdle
    /\ CasterIdle
    /\ SplitIdle
    /\ mData = << >>
    /\ mDataCapacity = 0
    /\ mDataBuffer = 0
    /\ scUseWorker \in BOOLEAN
    /\ scPending = NoMeshFrame
    /\ scReady = NoMeshFrame
    /\ scFrame = NoMeshFrame
    /\ scDrawn = << >>
    /\ UploadIdle

NextMesh ==
    \/ MeshEmplace
    \/ MeshDestroyEntity
    \/ MeshWorkerBuild
    \/ MeshFramePrepare
    \/ MeshFrameRecord

SpecMesh == InitMesh /\ [][NextMesh]_vars

(***************************************************************************)
(* Properties of a built frame.                                            *)
(***************************************************************************)
BatchRange(b) == (b.startInstance + 1) .. (b.startInstance + b.instanceCount)

\* the snapshot items that BuildPreparedFrame keeps: a mesh, inside the frustum
VisibleIndices(items, frustum) ==
    { i \in DOMAIN items :
        items[i].mesh # 0 /\ Intersects(frustum, WorldSphere(items[i])) }

RECURSIVE CountsOf(_)
CountsOf(batches) ==
    IF batches = << >> THEN << >>
    ELSE << Head(batches).instanceCount >> \o CountsOf(Tail(batches))

PartitionsInstances(f) ==
    /\ \A k \in DOMAIN f.batches :
          /\ f.batches[k].instanceCount >= 1
          /\ f.batches[k].startInstance =
                IF k = 1 THEN 0
                ELSE f.batches[k - 1].startInstance + f.batches[k - 1].instanceCount
    /\ \A i \in DOMAIN f.instances :
          Cardinality({ k \in DOMAIN f.batches : i \in BatchRange(f.batches[k]) }) = 1
    /\ \A k \in DOMAIN f.batches : BatchRange(f.batches[k]) \subseteq DOMAIN f.instances
    /\ SumSeq(CountsOf(f.batches)) = Len(f.instances)

\* C7: the batches of a built frame partition its instance array exactly
\* (ranges contiguous from 0, no gap, no overlap) and the instance counts
\* add up to the number of visible snapshot items.
C7_BatchesPartitionInstances ==
    bBuilt =>
        /\ PartitionsInstances(bFrame)
        /\ SumSeq(CountsOf(bFrame.batches))
              = Cardinality(VisibleIndices(bItems, bFrustum))
        /\ { bFrame.instances[i].src : i \in DOMAIN bFrame.instances }
              = VisibleIndices(bItems, bFrustum)

C7_Witness ==
    /\ bBuilt
    /\ Len(bFrame.batches) >= 2
    /\ Len(bFrame.instances) = 3
    /\ Cardinality(VisibleIndices(bItems, bFrustum)) < Len(bItems) + 1
    /\ \E k \in DOMAIN bFrame.batches : bFrame.batches[k].instanceCount = 2

\* the material slot the build gave a snapshot item: the place of the first
\* material with the item's key in the frame's key array, 0-based
SlotOf(f, item) ==
    CHOOSE n \in 0 .. (Len(f.materialKeys) - 1) :
        /\ f.materialKeys[n + 1] = MaterialKeyOf[item.material]
        /\ \A m \in 0 .. (n - 1) : f.materialKeys[m + 1] # f.materialKeys[n + 1]

\* C8: in every batch, every instance of the batch's range was made from an
\* item with the batch's mesh and the batch's material slot, so all instances
\* of one batch share one (mesh, material slot).
C8_BatchInstancesShareMeshAndMaterial ==
    bBuilt =>
        \A k \in DOMAIN bFrame.batches :
            \A i \in BatchRange(bFrame.batches[k]) :
                /\ i \in DOMAIN bFrame.instances
                /\ bItems[bFrame.instances[i].src].mesh = bFrame.batches[k].mesh
                /\ SlotOf(bFrame, bItems[bFrame.instances[i].src])
                      = bFrame.batches[k].materialIndex

C8_Witness ==
    /\ bBuilt
    /\ \E k \in DOMAIN bFrame.batches :
          /\ bFrame.batches[k].instanceCount >= 2
          /\ \E j \in DOMAIN bFrame.batches :
                /\ j # k
                /\ bFrame.batches[j].mesh = bFrame.batches[k].mesh
                /\ bFrame.batches[j].materialIndex # bFrame.batches[k].materialIndex

----------------------------------------------------------------------------
(***************************************************************************)
(* Properties of the frame pipeline.                                       *)
(***************************************************************************)
\* C1: with the prep worker enabled, the frame rendered in frame N was built
\* from the snapshot taken in frame N or in frame N-1, never an older one.
C1_RenderedFromCurrentOrPreviousSnapshot ==
    (mUsePrepareWorker /\ lastRender.n > 0) =>
        lastRender.snap \in { lastRender.n, lastRender.n - 1 }

\* C2 as claimed: in every teardown sequence (Shutdown, re-initialization
\* after device loss, the final teardown of main) no GPU resource and no mesh
\* buffer is released while the worker thread is still running.
C2_NothingReleasedWhileWorkerRuns ==
    releasedWhileRunning = { }

\* C2 as amended: Shutdown signals and joins the worker before it releases
\* any GPU resource the render system owns; only main() releases the scene's
\* mesh buffers and the device's objects while the worker may be running.
C2_RenderSystemReleasesAfterJoin ==
    /\ "render system" \notin releasedWhileRunning
    /\ mainPc \in { "shutdown_release", "shutdown_clear" } => workerPc = "none"

C2_Witness ==
    /\ mainPc = "shutdown_clear"
    /\ ~ rsResources
    /\ nPub >= 1
    /\ sdRet = "final"

\* C4: the rendered frames are built from snapshots in non-decreasing frame
\* order: no frame built from an older snapshot is rendered after a frame
\* built from a newer one.
C4_RenderedSnapshotsNonDecreasing ==
    lastRender.snap >= maxSnapBefore

\* C9: in every frame that reaches rendering, built synchronously or taken
\* from the worker, every batch's material index is a valid index into the
\* frame's materials, and materials and materialKeys have the same length.
C9_MaterialIndicesValid ==
    mainPc \in { "enqueue", "draw" } =>
        /\ Len(passFrame.frame.materials) = Len(passFrame.frame.materialKeys)
        /\ \A k \in DOMAIN passFrame.frame.batches :
              /\ passFrame.frame.batches[k].materialIndex >= 0
              /\ passFrame.frame.batches[k].materialIndex
                    < Len(passFrame.frame.materials)

C9_Witness ==
    /\ mainPc = "draw"
    /\ lastConsume.ok
    /\ Len(passFrame.frame.materials) = 2
    /\ \E k \in DOMAIN passFrame.frame.batches :
          passFrame.frame.batches[k].materialIndex = 1

\* C10: ConsumeReadyFrame never waits for a build: the worker does not hold
\* the mutex while it runs BuildPreparedFrame (it holds it only to evaluate
\* the wait predicate and to publish), so the call can go through during a
\* build, and a call that finds no ready frame returns false and the pass
\* goes on with its own frame.
C10_ConsumeNeverWaitsForBuild ==
    /\ [](workerPc = "build" => mutex # "worker")
    /\ [](mutex = "worker" => workerPc \in { "wait_pred", "publish" })
    /\ []((mainPc = "consume" /\ workerPc = "build") => ENABLED FrameConsumeOrBuild)
    /\ [][(mainPc = "consume" /\ mainPc' # "consume" /\ ~ mReadyValid) =>
            /\ ~ lastConsume'.ok
            /\ passFrame'.tag = mSnapshotScratch.tag
            /\ workerPc' = workerPc]_vars

C10_Witness ==
    /\ workerPc = "build"
    /\ mainPc = "enqueue"
    /\ lastConsume.called
    /\ ~ lastConsume.ok
    /\ nEnq >= 1

\* the members both threads use, the worker's locals and what the main
\* thread alone uses
sharedSlots == << mWorkerExit, mPendingValid, mReadyValid, mPendingItems,
                 mPendingFrustum, mReadyFrame >>

workerLocals == << workerItems, workerFr, workerFrame >>

mainLocals == << mSnapshotScratch, passFrustum, passFrame >>

\* C11: while the worker thread runs, every step that reads or writes the
\* pending slot, the ready slot or mWorkerExit is taken with mWorkMutex held
\* (by the worker in its two lock scopes, by the main thread in a lock_guard
\* section entered with the mutex free); the unlocked resets of StartWorker
\* happen only when no worker runs; and a snapshot buffer or prepared frame
\* outside the slots is changed by its own thread only.
C11_SlotsOnlyUnderMutex ==
    /\ [](workerPc \in WorkerSharedSections => mutex = "worker")
    /\ []((WorkerRunning /\ mainPc \in MainSharedSections)
             => mainPc \in MainLockedSections)
    /\ [][WorkerRunning =>
            /\ sharedSlots' # sharedSlots =>
                  \/ /\ workerPc \in WorkerSharedSections
                     /\ mutex = "worker"
                     /\ mainPc' = mainPc
                     /\ mainLocals' = mainLocals
                  \/ /\ mainPc \in MainLockedSections
                     /\ mutex = "free"
                     /\ workerPc' = workerPc
            /\ workerLocals' # workerLocals =>
                  /\ workerPc' # workerPc
                  /\ mainLocals' = mainLocals
            /\ mainLocals' # mainLocals =>
                  /\ workerPc' = workerPc
                  /\ workerLocals' = workerLocals]_vars

C11_Witness ==
    /\ workerPc = "publish"
    /\ mutex = "worker"
    /\ mainPc = "consume"
    /\ workerItems.tag > 0
    /\ resets = 1

\* C12: a worker thread is created only when no thread exists (none was
\* started, or the previous one has exited and been joined); the worker takes
\* a job only at the wait predicate, from a valid pending slot, with nothing
\* of an earlier job left to publish, and what it publishes is the frame of
\* the one snapshot it took.
C12_OneWorkerOneJob ==
    /\ [](mainPc = "start_thread" => workerPc = "none")
    /\ [](workerPc = "build" => workerFrame = EmptySlot)
    /\ [](workerPc \in { "lock_publish", "publish" }
             => workerFrame.tag = workerItems.tag)
    /\ [][(workerPc' # workerPc /\ workerPc' = "lock_wait" /\ workerPc # "publish")
             => workerPc = "none"]_vars
    /\ [][workerItems' # workerItems =>
             \/ workerPc = "none"
             \/ /\ workerPc = "wait_pred"
                /\ workerPc' = "build"
                /\ mPendingValid
                /\ ~ mPendingValid'
                /\ workerFrame = EmptySlot
                /\ workerItems' = mPendingItems]_vars

C12_Witness ==
    /\ resets = 1
    /\ workerPc = "build"
    /\ workerItems.tag > 0
    /\ mPendingValid

\* C13: whenever StopWorker has set the exit flag and waits in join with
\* the worker thread still running - blocked in the wait, about to take a
\* job, or building - the thread exits and the join returns.
C13_StopWorkerReturns ==
    (mainPc = "stop_join" /\ WorkerRunning)
        ~> (workerPc = "none" /\ mainPc # "stop_join")

C13_Witness ==
    /\ mainPc = "stop_join"
    /\ mWorkerExit
    /\ workerPc = "build"
    /\ workerItems.tag > 0

\* OnDeviceReset returns true: Initialize succeeded, with its worker started
\* when the configuration asks for one
ResetReturnsTrue ==
    /\ resets >= 1
    /\ mainPc \in { "init_create", "start_thread" }
    /\ mainPc' = "frame"

\* C17: when OnDeviceReset returns true the material cache and the program
\* cache are empty, there is no instance buffer and the capacity is 0, and
\* the pending and the ready slot are invalid and empty; and whatever the
\* slots and the worker hold afterwards was enqueued after the worker was
\* restarted.
C17_NothingSurvivesDeviceReset ==
    /\ [][ResetReturnsTrue =>
            /\ mMaterialCache' = { }
            /\ mProgramCache' = { }
            /\ mInstanceCapacity' = 0
            /\ ~ mInstanceVB'
            /\ ~ mPendingValid'
            /\ ~ mReadyValid'
            /\ mPendingItems' = EmptySnapshot
            /\ mReadyFrame' = EmptySlot]_vars
    /\ [](mPendingValid => mPendingItems.tag \in enqueued)
    /\ [](mReadyValid => mReadyFrame.tag \in enqueued)
    /\ [](workerPc \in { "build", "lock_publish", "publish" }
             => workerItems.tag \in enqueued)

\* back in the loop, the worker restarted, after a reset that found cache
\* entries of a rendered frame to discard
C17_Witness ==
    /\ resets = 1
    /\ mainPc = "frame"
    /\ booted
    /\ gpuCreations >= 2
    /\ mMaterialCache = { }
    /\ mInstanceCapacity = 0
    /\ WorkerRunning
    /\ nPub = 0
    /\ lastRender.n >= 1

----------------------------------------------------------------------------
(***************************************************************************)
(* Properties of the hand-off slot (SpecSlot).                             *)
(***************************************************************************)
\* C3: after one EnqueueBuild, once the worker has published its result,
\* exactly one ConsumeReadyFrame call returns true, the frame it returns is
\* a BuildPreparedFrame result for the enqueued snapshot and frustum, and a
\* further call without a new EnqueueBuild returns false.
C3_OneEnqueueOneTrueConsume ==
    /\ nTrue <= nPub
    /\ nPub <= nEnq
    /\ (nEnq = 1 /\ nPub = 1) => (mReadyValid <=> nTrue = 0)
    /\ nTrue >= 1 =>
          /\ passFrame.tag \in enqueued
          /\ passFrame.frame \in BuildOutcomes(taken[passFrame.tag].items,
                                                taken[passFrame.tag].frustum)

C3_Witness ==
    /\ nEnq = 1
    /\ nPub = 1
    /\ nTrue = 1
    /\ lastConsume.called
    /\ ~ lastConsume.ok
    /\ passFrame.frame.batches # << >>

----------------------------------------------------------------------------
(***************************************************************************)
(* Properties of the recording passes (SpecRecord).                        *)
(***************************************************************************)
\* a draw as the claim names it: mesh, material, instance range
DrawKey(d) == << d.mesh, d.material, d.start, d.count >>

CountIn(draws, k) == Cardinality({ i \in DOMAIN draws : DrawKey(draws[i]) = k })

SameDrawMultiset(a, b) ==
    \A k \in { DrawKey(a[i]) : i \in DOMAIN a } \cup { DrawKey(b[i]) : i \in DOMAIN b } :
        CountIn(a, k) = CountIn(b, k)

\* C5: for the same PreparedFrame and settings the deferred-context path
\* and the immediate path submit the same multiset of (mesh, material,
\* instance range) draws.
C5_SameDrawsOnBothPaths ==
    (pass = "geometry" /\ gPc = "done") => SameDrawMultiset(gSubmitted, gImmediate)

\* strictly increasing sequence of numbers
Increasing(q) == \A i, j \in DOMAIN q : i < j => q[i] < q[j]

\* the command lists executed so far, in order: the slot and the recorder
ShadowLists == SelectSeq(sLog, LAMBDA e : e.kind = "list")

\* C6 as claimed: the command buffers are replayed in worker-index order,
\* and only after every recording worker has finished.
C6_ReplayInWorkerIndexOrder ==
    /\ Increasing(gReplayLog)
    /\ gReplayLog # << >> => Len(gRecorded) = gNumWorkers
    /\ \A i, j \in DOMAIN ShadowLists :
          i < j => ShadowLists[i].by <= ShadowLists[j].by
    /\ ShadowLists # << >> => \A t \in DOMAIN sWorkerPc : sWorkerPc[t] = "done"

\* C6 as amended: the command buffers are replayed in the index order of
\* recorded[] - the context (chunk) index in the geometry pass, the cascade
\* index in the shadow pass, whichever thread recorded the cascade - and
\* only after every recording worker has finished.
C6_ReplayInSlotOrderAfterRecording ==
    /\ Increasing(gReplayLog)
    /\ gReplayLog # << >> => Len(gRecorded) = gNumWorkers
    /\ Increasing([i \in DOMAIN ShadowLists |-> ShadowLists[i].slot])
    /\ sPc \in { "replay", "done" } => \A t \in DOMAIN sWorkerPc : sWorkerPc[t] = "done"
    /\ ShadowLists # << >> => sPc \in { "replay", "done" }

C6_Witness ==
    /\ sPc = "done"
    /\ Len(ShadowLists) = 3
    /\ Len(sFinished) >= 2
    /\ sFinished[1] > sFinished[2]
    /\ ShadowLists[1].by > ShadowLists[2].by

----------------------------------------------------------------------------
(***************************************************************************)
(* Properties of the device-lifetime state (SpecCache).                    *)
(***************************************************************************)
\* 1024 * 2^k for some k
IsBaselineTimesPowerOfTwo(c) ==
    \E k \in 0..12 : c = InstanceBaseline * (2 ^ k)

\* C14 as stated: over any sequence of EnsureInstanceBuffer calls since
\* initialization the capacity never drops below its high-water mark, is at
\* least n after a call that grows it, and is always 1024 times a power of
\* two.
C14_CapacityAlwaysBaselineMultiple ==
    /\ mInstanceCapacity >= capHigh
    /\ (lastEnsure.called /\ lastEnsure.after > lastEnsure.before)
          => lastEnsure.after >= lastEnsure.n
    /\ IsBaselineTimesPowerOfTwo(mInstanceCapacity)

\* C14 amended: the capacity never drops below its high-water mark, is at
\* least n after a call that grows it, and is 0 as long as no instance
\* buffer has been created since initialization, 1024 times a power of two
\* from then on - also when a later creation fails and leaves no buffer.
C14_CapacityMonotoneZeroOrBaselineMultiple ==
    /\ mInstanceCapacity >= capHigh
    /\ (lastEnsure.called /\ lastEnsure.after > lastEnsure.before)
          => /\ lastEnsure.after >= lastEnsure.n
             /\ mInstanceVB
    /\ mInstanceCapacity = 0 \/ IsBaselineTimesPowerOfTwo(mInstanceCapacity)
    /\ mInstanceVB => mInstanceCapacity > 0

C14_Witness ==
    /\ lastEnsure.called
    /\ lastEnsure.n = MaxRequest
    /\ lastEnsure.before = InstanceBaseline
    /\ lastEnsure.after > 2 * InstanceBaseline
    /\ mInstanceVB

\* C15: within the lifetime of the caches, a material that was resolved
\* before (the same field values, so the same MakeMaterialKeyHash key)
\* resolves to the entry its first resolution returned, and nothing is
\* created for it again - also when the first resolution cached a null
\* program or constant buffer.
C15_SameMaterialSameEntry ==
    (lastResolve.called /\ lastResolve.seen) =>
        /\ ~ lastResolve.created
        /\ [mat |-> lastResolve.mat, entry |-> lastResolve.entry] \in resolvedMats
        /\ lastResolve.entry \in mMaterialCache
        /\ lastResolve.entry.key = MakeMaterialKeyHash(lastResolve.mat)

C15_Witness ==
    /\ lastResolve.called
    /\ lastResolve.seen
    /\ lastResolve.mat = MatD
    /\ lastResolve.entry.program = 0
    /\ lastResolve.entry.materialCB # 0
    /\ Cardinality(mMaterialCache) >= 2

\* C16: a step that is not a re-initialization removes no entry from the
\* material cache and replaces none: every entry stays, with the program,
\* the constant buffer and the creation number it had.
C16_NoEntryRemovedOrReplaced ==
    [][CacheDeviceReset \/ (\A e \in mMaterialCache : e \in mMaterialCache')]_vars

C16_Witness ==
    /\ Cardinality(mMaterialCache) >= 3
    /\ lastResolve.called
    /\ lastResolve.seen
    /\ lastResolve.entry.born = 1

----------------------------------------------------------------------------
(***************************************************************************)
(* Properties of the optional features (SpecPass).  They are read in the   *)
(* state a pass leaves before it returns: lastPass has its arguments and   *)
(* what it did, the resource variables what it left behind.                *)
(***************************************************************************)
\* the creations of the optional features: the cascaded shadow map's, the
\* point-shadow cubemap's, the SSAO normal and depth targets'
OptionalFeatureCreations == { "shadow_views", "shadow_rs", "point", "gbuffer" }

\* C18: when the creation of a resource of an optional feature (cascaded
\* shadows, point shadows, the SSAO normal/depth targets) fails in a frame,
\* the frame still renders: with a main render target, an instance buffer
\* and visible instances, the geometry draws of the frame are submitted.
C18_FeatureFailureStillRendersGeometry ==
    ( /\ lastPass.called
      /\ lastPass.failed \cap OptionalFeatureCreations # { }
      /\ lastPass.failed \cap { "hdr", "instance" } = { }
      /\ lastPass.scene.visible )
    => lastPass.geometryDraws > 0

\* C19: a pass called with enableShadows = false issues no draw call in a
\* shadow pass, neither in the cascaded shadow pass nor in the point-shadow
\* pass, whatever casts a shadow in the scene.
C19_NoShadowDrawsWhenShadowsDisabled ==
    (lastPass.called /\ ~ lastPass.settings.enableShadows)
    => (lastPass.shadowDraws = 0 /\ lastPass.pointShadowDraws = 0)

----------------------------------------------------------------------------
(***************************************************************************)
(* Properties of the recording passes (SpecRecord), continued.             *)
(***************************************************************************)
\* the batch indices context i records: begin <= b < end, none when
\* begin >= end
ChunkOf(i, totalBatches, numWorkers) ==
    { b \in 0..(totalBatches - 1) :
        /\ ChunkBegin(i, totalBatches, numWorkers) <= b
        /\ b < ChunkEnd(i, totalBatches, numWorkers) }

\* C21: for a frame of n >= 1 batches and w recording contexts the chunks
\* [i * ceil(n/w), min((i+1) * ceil(n/w), n)) of the contexts i = 0..w-1
\* hold every batch index exactly once, and each chunk that is not empty
\* starts where the chunk before it ended.
C21_ChunksPartitionBatches ==
    (pass = "geometry" /\ gNumWorkers >= 1 /\ Len(gFrame.batches) >= 1) =>
        LET n == Len(gFrame.batches)
            w == gNumWorkers
        IN  /\ \A b \in 0..(n - 1) :
                  Cardinality({ i \in 0..(w - 1) : b \in ChunkOf(i, n, w) }) = 1
            /\ ChunkBegin(0, n, w) = 0
            /\ \A i \in 1..(w - 1) :
                  ChunkOf(i, n, w) # { } =>
                      ChunkBegin(i, n, w) = ChunkEnd(i - 1, n, w)
            /\ \A i \in 0..(w - 1) : ChunkEnd(i, n, w) <= n

\* every context has had its turn on a frame with more than one batch, the
\* last context found its chunk empty, and the others recorded theirs
C21_Witness ==
    /\ pass = "geometry"
    /\ gPc = "replay"
    /\ gNumWorkers = 3
    /\ Len(gFrame.batches) = 4
    /\ ChunkOf(2, 4, 3) = { }
    /\ gRecorded[1].present /\ gRecorded[2].present
    /\ Len(gRecorded[1].draws) + Len(gRecorded[2].draws) = 4

----------------------------------------------------------------------------
(***************************************************************************)
(* Properties of a built frame (SpecBuild), continued.                     *)
(***************************************************************************)
\* the (mesh, material slot) pairs of the items the instances were made from
VisiblePairs(f, items) ==
    { << items[f.instances[i].src].mesh, SlotOf(f, items[f.instances[i].src]) >> :
        i \in DOMAIN f.instances }

\* C22: a built frame has exactly one batch for each distinct (mesh,
\* material slot) pair among its visible instances: as many batches as
\* pairs, and no two batches with the same pair.  So three visible entities
\* of one mesh and two materials give 2 batches and 3 instances.
C22_OneBatchPerMeshMaterialPair ==
    bBuilt =>
        /\ Len(bFrame.batches) = Cardinality(VisiblePairs(bFrame, bItems))
        /\ { << bFrame.batches[k].mesh, bFrame.batches[k].materialIndex >> :
               k \in DOMAIN bFrame.batches } = VisiblePairs(bFrame, bItems)
        /\ \A j, k \in DOMAIN bFrame.batches :
              ( /\ bFrame.batches[j].mesh = bFrame.batches[k].mesh
                /\ bFrame.batches[j].materialIndex = bFrame.batches[k].materialIndex )
              => j = k

\* three visible entities of one mesh and two materials, the entity between
\* the two others in the snapshot having the other material: 2 batches,
\* 3 instances
C22_Witness ==
    /\ bBuilt
    /\ Len(bItems) = 3
    /\ Cardinality(VisibleIndices(bItems, bFrustum)) = 3
    /\ Cardinality({ bItems[i].mesh : i \in DOMAIN bItems }) = 1
    /\ Cardinality({ MaterialKeyOf[bItems[i].material] : i \in DOMAIN bItems }) = 2
    /\ bItems[1].material = bItems[3].material
    /\ Len(bFrame.batches) = 2
    /\ Len(bFrame.instances) = 3

\* |x|
Abs(x) == IF x < 0 THEN - x ELSE x

\* the square of the distance from the point c to the box |x|,|y|,|z| <= h
SquaredDistanceToBox(c, h) ==
    LET ex(k) == IF Abs(c[k]) > h THEN Abs(c[k]) - h ELSE 0
    IN  ex(1) * ex(1) + ex(2) * ex(2) + ex(3) * ex(3)

\* the sphere has a point in the box frustum: it touches it or lies inside
TouchesFrustum(planes, s) ==
    s.radius >= 0
    /\ SquaredDistanceToBox(s.center, planes[1].d) <= s.radius * s.radius

----------------------------------------------------------------------------
\* the signed distances of a point from the six faces of a view volume,
\* positive inside
BoxPlaneDistances(box, x) ==
    { box.h + x[1], box.h - x[1], box.h + x[2], box.h - x[2],
      x[3] - box.zn, box.zf - x[3] }

FrustumCentre(box) == << 0, 0, (box.zn + box.zf) \div 2 >>

\* C24: Frustum::Intersects returns false for every sphere whose centre is
\* at signed distance less than -radius from at least one of the six planes
\* of the view volume, and true for the sphere of radius 0 at the centre of
\* the view volume.
C24_OutsideRejectedCentreAccepted ==
    fResult # "none" =>
        /\ (\E dist \in BoxPlaneDistances(fBox, fSphere.center) :
                dist < 0 - fSphere.radius) => fResult = "false"
        /\ (fSphere.radius = 0 /\ fSphere.center = FrustumCentre(fBox))
              => fResult = "true"

\* a sphere of radius 1 between the side planes and wholly in front of the
\* near plane of the volume that starts at z = 0 was rejected
C24_Witness ==
    /\ fResult = "false"
    /\ fBox.zn = 0
    /\ fSphere.radius = 1
    /\ fSphere.center[1] = 0 /\ fSphere.center[2] = 0
    /\ fSphere.center[3] - fBox.zn < 0 - fSphere.radius

----------------------------------------------------------------------------
\* the positions of mShadowInstancesScratch that cascade c filled
CascadeInstances(c) ==
    { k \in DOMAIN mShadowInstancesScratch : mShadowInstancesScratch[k].cascade = c }

CascadeBatchesCoverCasters(c) ==
    LET batches == mShadowDrawBatchesPerCascade[c + 1]
        ptrs == ShadowCasterPtrs(cSnapshot, c)
    IN  /\ \A k \in DOMAIN batches :
              /\ batches[k].instanceCount >= 1
              /\ k > 1 => batches[k].startInstance =
                    batches[k - 1].startInstance + batches[k - 1].instanceCount
        /\ \A j \in CascadeInstances(c) :
              Cardinality({ k \in DOMAIN batches : j \in BatchRange(batches[k]) }) = 1
        /\ \A k \in DOMAIN batches : BatchRange(batches[k]) \subseteq CascadeInstances(c)
        /\ \A i \in DOMAIN cSnapshot :
              Cardinality({ j \in CascadeInstances(c) :
                              mShadowInstancesScratch[j].src = i })
                = IF \E n \in DOMAIN ptrs : ptrs[n] = i THEN 1 ELSE 0

CascadeBatchesOnePerMesh(c) ==
    LET batches == mShadowDrawBatchesPerCascade[c + 1]
    IN  /\ \A k \in DOMAIN batches : \A j \in BatchRange(batches[k]) :
              cSnapshot[mShadowInstancesScratch[j].src].mesh = batches[k].mesh
        /\ \A k1, k2 \in DOMAIN batches :
              k1 # k2 => batches[k1].mesh # batches[k2].mesh

\* C25: in each shadow cascade the draw batches cover the cascade's caster
\* instances exactly once in contiguous ranges, all instances of a batch
\* share one mesh and no two batches of the cascade have the same mesh,
\* whatever the casters' materials.
C25_CasterBatchesByMeshOnly ==
    cBatched =>
        \A c \in 0..(cCascades - 1) :
            CascadeBatchesCoverCasters(c) /\ CascadeBatchesOnePerMesh(c)

\* a snapshot whose casters of mesh 1 are separated by one of mesh 2 and
\* have different materials: cascade 0 drew them in one batch of two
\* instances, followed by the batch of mesh 2
C25_Witness ==
    /\ cBatched
    /\ Len(cSnapshot) = 3
    /\ cSnapshot[1].mesh = 1 /\ cSnapshot[2].mesh = 2 /\ cSnapshot[3].mesh = 1
    /\ cSnapshot[1].material # cSnapshot[3].material
    /\ Len(mShadowDrawBatchesPerCascade[1]) = 2
    /\ mShadowDrawBatchesPerCascade[1][1].instanceCount = 2
    /\ mShadowDrawBatchesPerCascade[1][1].mesh = 1

----------------------------------------------------------------------------
----------------------------------------------------------------------------
\* C27: every Mesh pointer the recording dereferences, taken from a batch
\* of the frame being rendered, refers to a mesh component that is still
\* stored at that address in the scene.
C27_RecordedMeshPointersLive ==
    scFrame.valid => \A ptr \in scFrame.ptrs : PointerLive(ptr)

----------------------------------------------------------------------------
\* the executed lists and immediate draws of cascade c
CascadeDraws(c) == { k \in DOMAIN sLog : sLog[k].slot = c }

\* C28: whatever the cascade count, the thread setting and the number of
\* deferred contexts (zero included), the multi-threaded shadow recording
\* path has cleared and drawn each cascade exactly once when Render is
\* done, as the sequential path does; a cascade whose FinishCommandList
\* failed on an existing context is left aside.
C28_MultiThreadedDrawsEachCascadeOnce ==
    (pass = "shadow" /\ sPc = "done" /\ sRequestedThreads > 1) =>
        \A c \in 0..(sCascades - 1) :
            \/ Cardinality(CascadeDraws(c)) = 1
            \/ sCtxCount > 0 /\ ~ sRecorded[c + 1].present

----------------------------------------------------------------------------
\* the deferred context of thread t (from 0): mDeferredContexts[t % ctxCount]
ShadowThreadContext(t, ctxCount) == t % ctxCount

\* the threads that are inside RecordCascade
RecordingThreads == { t \in DOMAIN sWorkerPc : sWorkerPc[t] = "record" }

\* C29: during multi-threaded shadow recording no deferred context is used
\* by two recording threads at the same time.
C29_NoContextSharedByTwoThreads ==
    (pass = "shadow" /\ sCtxCount > 0) =>
        \A t1, t2 \in RecordingThreads :
            t1 # t2 => ShadowThreadContext(t1 - 1, sCtxCount)
                         # ShadowThreadContext(t2 - 1, sCtxCount)

\* two threads record at the same time while fewer contexts exist than
\* threads were asked for
C29_Witness ==
    /\ pass = "shadow"
    /\ sCtxCount = 2
    /\ sRequestedThreads = 3
    /\ Cardinality(RecordingThreads) = 2

----------------------------------------------------------------------------
\* C30: whenever instance data is copied into the instance buffer (shadow,
\* point shadow or geometry upload), a buffer exists and the number of
\* instances copied does not exceed its capacity, after any sequence of
\* EnsureInstanceBuffer calls, failed creations and calls without a device.
C30_UploadFitsInstanceBuffer ==
    lastUpload.site # "none" =>
        lastUpload.buffer /\ lastUpload.n <= lastUpload.capacity

\* a geometry upload of one instance more than the first buffer holds,
\* into a buffer that was created again with twice the capacity
C30_Witness ==
    /\ uPc = "idle"
    /\ mInstanceVB
    /\ lastUpload.site = "geometry"
    /\ lastUpload.n = InstanceBaseline + 1
    /\ lastUpload.capacity = 2 * InstanceBaseline
====
